---- MODULE Spec2Model ----
(***************************************************************************)
(* Model of the personal finance calculator: the keypad arithmetic engine  *)
(* (Calculator.tsx), the receipt-scan sanitizer and staging workflow       *)
(* (Calculator.tsx, geminiService.ts), the persisted history ledger and    *)
(* category list (App.tsx) and the caching service worker (sw.js).         *)
(*                                                                         *)
(* Numbers.  A JavaScript number is modelled as a record: a finite value   *)
(* is a fixed-point integer counting thousandths (Scale), and the          *)
(* non-finite values NaN, Infinity and -Infinity are separate kinds.  The  *)
(* format has a reduced range: a magnitude above MaxNum overflows to an    *)
(* infinity, as a double does above Number.MAX_VALUE, and a result that    *)
(* is not a multiple of 1/Scale is rounded to the nearest one, as a double *)
(* is rounded to 53 bits.  The sign of zero is not modelled.               *)
(*                                                                         *)
(* Strings.  A string is a sequence of one-character strings, so that      *)
(* String(number), parseFloat, toFixed, trim and the regular-expression    *)
(* filter are computed character by character.                             *)
(***************************************************************************)
EXTENDS Integers, Sequences, FiniteSets, TLC

\* ------------------------------------------------------------------ bounds
\* Longest entry a user types in the explored runs (the code's own cap is
\* MaxDisplayLen).
MaxEntryLen == 2
\* Digit keys 0..MaxDigit are pressed in the explored runs.
MaxDigit == 2
\* Number of keypad inputs in an explored run.
MaxInputs == 4
\* Number of keypad inputs in a run that also opens and closes the scanner.
MaxShortInputs == 3
\* Number of files chosen for scanning in a run of the scan workflow, and in
\* a run that moves between the calculator and the history view or scans
\* several receipts.
MaxScans == 1
MaxMountScans == 2
\* Number of staging edits in an explored run, and most items in staging.
MaxEdits == 1
\* Number of staging edits in a run that follows one scan through staging.
MaxStagingEdits == 2
MaxItems == 2
\* Number of history insertions in an explored run.
MaxInserts == 2
\* Most items in a raw response given to the sanitizer.
MaxRawItems == 2
\* Number of keypad taps in a run of the scan workflow.
MaxScanTaps == 1
\* entries of a ledger that is exported
MaxExportEntries == 2
\* times the camera view is opened
MaxCameraOpens == 2

\* ------------------------------------------------------- program constants
MaxDisplayLen == 15
HistoryCap == 50

\* ----------------------------------------------------------------- numbers
Scale == 1000

RECURSIVE Pow10(_)
Pow10(n) == IF n <= 0 THEN 1 ELSE 10 * Pow10(n - 1)

\* Largest finite magnitude, in units: every typed entry fits.
MaxNum == Pow10(MaxEntryLen)
MaxRaw == MaxNum * Scale

Fin(n) == [k |-> "fin", v |-> n]
NaN == [k |-> "nan", v |-> 0]
PosInf == [k |-> "inf", v |-> 1]
NegInf == [k |-> "inf", v |-> -1]
null == [k |-> "null", v |-> 0]

Abs(n) == IF n < 0 THEN -n ELSE n
Sgn(n) == IF n < 0 THEN -1 ELSE IF n > 0 THEN 1 ELSE 0

isNaN(x) == x.k = "nan"
isFinite(x) == x.k = "fin"

\* A raw fixed-point result brought into the format: overflow gives an infinity.
Norm(n) == IF n > MaxRaw THEN PosInf ELSE IF n < -MaxRaw THEN NegInf ELSE Fin(n)

\* Integer division of magnitudes rounded to nearest (ties away from zero).
RoundDiv(a, b) == Sgn(a) * Sgn(b) * ((2 * Abs(a) + Abs(b)) \div (2 * Abs(b)))

Neg(x) ==
  IF x.k = "fin" THEN Fin(-x.v)
  ELSE IF x.k = "inf" THEN [k |-> "inf", v |-> -x.v]
  ELSE x

Add(x, y) ==
  IF isNaN(x) \/ isNaN(y) THEN NaN
  ELSE IF x.k = "inf" /\ y.k = "inf" THEN (IF x.v = y.v THEN x ELSE NaN)
  ELSE IF x.k = "inf" THEN x
  ELSE IF y.k = "inf" THEN y
  ELSE Norm(x.v + y.v)

Sub(x, y) == Add(x, Neg(y))

SignOf(x) == IF x.k = "inf" THEN x.v ELSE Sgn(x.v)

Mul(x, y) ==
  IF isNaN(x) \/ isNaN(y) THEN NaN
  ELSE IF x.k = "inf" \/ y.k = "inf"
    THEN (IF SignOf(x) * SignOf(y) = 0 THEN NaN
          ELSE [k |-> "inf", v |-> SignOf(x) * SignOf(y)])
  ELSE IF x.v = 0 \/ y.v = 0 THEN Fin(0)
  ELSE IF Abs(x.v) > ((MaxRaw + 1) * Scale) \div Abs(y.v)
    THEN [k |-> "inf", v |-> Sgn(x.v) * Sgn(y.v)]
  ELSE Norm(RoundDiv(x.v * y.v, Scale))

Div(x, y) ==
  IF isNaN(x) \/ isNaN(y) THEN NaN
  ELSE IF x.k = "inf" /\ y.k = "inf" THEN NaN
  ELSE IF x.k = "inf" THEN [k |-> "inf", v |-> x.v * (IF SignOf(y) < 0 THEN -1 ELSE 1)]
  ELSE IF y.k = "inf" THEN Fin(0)
  ELSE IF y.v = 0 THEN (IF x.v = 0 THEN NaN ELSE [k |-> "inf", v |-> Sgn(x.v)])
  ELSE Norm(RoundDiv(x.v * Scale, y.v))

RECURSIVE PowInt(_, _)
\* x to a non-negative integer power by squaring.
PowInt(x, n) ==
  IF n = 0 THEN Fin(Scale)
  ELSE IF n = 1 THEN x
  ELSE LET h == PowInt(x, n \div 2)
           sq == Mul(h, h)
       IN  IF n % 2 = 0 THEN sq ELSE Mul(sq, x)

\* Math.pow.  Integer powers are computed by repeated multiplication; for a
\* fractional exponent the fractional factor of a positive base is
\* approximated to first order.
Pow(x, y) ==
  IF isNaN(y) THEN NaN
  ELSE IF y.k = "fin" /\ y.v = 0 THEN Fin(Scale)
  ELSE IF isNaN(x) THEN NaN
  ELSE IF y.k = "inf" THEN
    (IF x.k = "fin" /\ Abs(x.v) = Scale THEN NaN
     ELSE IF (x.k = "inf" \/ Abs(x.v) > Scale) = (y.v > 0) THEN PosInf ELSE Fin(0))
  ELSE IF x.k = "inf" THEN
    (IF y.v < 0 THEN Fin(0)
     ELSE IF x.v < 0 /\ y.v % (2 * Scale) = Scale THEN NegInf ELSE PosInf)
  ELSE IF x.v = 0 THEN (IF y.v > 0 THEN Fin(0) ELSE PosInf)
  ELSE LET n == Abs(y.v) \div Scale
           f == Abs(y.v) % Scale
           whole == PowInt(x, n)
           frac == IF f = 0 THEN Fin(Scale)
                   ELSE Norm(Scale + RoundDiv(f * (x.v - Scale), Scale))
           mag == Mul(whole, frac)
       IN  IF f # 0 /\ x.v < 0 THEN NaN
           ELSE IF y.v > 0 THEN mag
           ELSE Div(Fin(Scale), mag)

RECURSIVE Newton(_, _)
Newton(n, r) ==
  LET r2 == (r + n \div r) \div 2
  IN  IF r2 >= r THEN r ELSE Newton(n, r2)

\* floor of the square root of a non-negative integer
ISqrt(n) == IF n < 2 THEN n ELSE Newton(n, n)

\* Math.sqrt
Sqrt(x) ==
  IF isNaN(x) THEN NaN
  ELSE IF x.k = "inf" THEN (IF x.v > 0 THEN PosInf ELSE NaN)
  ELSE IF x.v < 0 THEN NaN
  ELSE Fin(ISqrt(x.v * Scale))

\* sine of an angle of d hundredths of a degree, 0 <= d <= 18000, by
\* Bhaskara's rational approximation (exact at 0, 30, 90, 150 and 180 degrees)
SinHalfTurn(d) ==
  LET p == (d * (18000 - d)) \div 1000
  IN  RoundDiv(4 * Scale * p, 405000 - p)

\* Math.sin(x * Math.PI / 180)
SinDeg(x) ==
  IF x.k # "fin" THEN NaN
  ELSE LET d == (x.v \div 10) % 36000
       IN  IF d <= 18000 THEN Fin(SinHalfTurn(d)) ELSE Fin(-SinHalfTurn(d - 18000))

\* Math.cos(x * Math.PI / 180)
CosDeg(x) ==
  IF x.k # "fin" THEN NaN
  ELSE LET d == ((x.v \div 10) + 9000) % 36000
       IN  IF d <= 18000 THEN Fin(SinHalfTurn(d)) ELSE Fin(-SinHalfTurn(d - 18000))

\* Math.tan(x * Math.PI / 180); at an odd multiple of 90 degrees the double
\* result is huge (about 1.6e16), which overflows this format.
TanDeg(x) == Div(SinDeg(x), CosDeg(x))

RECURSIVE TopPow10(_, _)
\* the largest power of ten that is <= n (n >= 1), starting from p
TopPow10(n, p) == IF p * 10 > n THEN p ELSE TopPow10(n, p * 10)

RECURSIVE ExpOf(_)
ExpOf(p) == IF p <= 1 THEN 0 ELSE 1 + ExpOf(p \div 10)

\* Math.log10: the characteristic is exact, the mantissa is interpolated
\* linearly within the decade.
Log10(x) ==
  IF isNaN(x) THEN NaN
  ELSE IF x.k = "inf" THEN (IF x.v > 0 THEN PosInf ELSE NaN)
  ELSE IF x.v < 0 THEN NaN
  ELSE IF x.v = 0 THEN NegInf
  ELSE LET p == TopPow10(x.v, 1)
       IN  Fin((ExpOf(p) - 3) * Scale + RoundDiv((x.v - p) * Scale, 9 * p))

\* Math.log, as log10 times ln 10
Ln(x) == Mul(Log10(x), Fin(2303))

MathPI == Fin(3142)
MathE == Fin(2718)

\* ----------------------------------------------------------------- strings
DigitChars == <<"0", "1", "2", "3", "4", "5", "6", "7", "8", "9">>
IsDigit(c) == \E i \in 1..10 : DigitChars[i] = c
DigitVal(c) == (CHOOSE i \in 1..10 : DigitChars[i] = c) - 1
IsSpace(c) == c = " "

RECURSIVE NatStr(_)
NatStr(n) == IF n < 10 THEN <<DigitChars[n + 1]>>
             ELSE NatStr(n \div 10) \o <<DigitChars[(n % 10) + 1]>>

\* the three fraction digits of f thousandths without trailing zeros
FracStr(f) ==
  IF f = 0 THEN <<>>
  ELSE IF f % 100 = 0 THEN <<".">> \o NatStr(f \div 100)
  ELSE IF f % 10 = 0 THEN <<".", DigitChars[(f \div 100) + 1]>> \o NatStr((f \div 10) % 10)
  ELSE <<".", DigitChars[(f \div 100) + 1], DigitChars[((f \div 10) % 10) + 1]>>
         \o NatStr(f % 10)

\* String(x) of a number: the shortest decimal that reads back as x
Str(x) ==
  IF x.k = "nan" THEN <<"N", "a", "N">>
  ELSE IF x.k = "inf" THEN
    (IF x.v > 0 THEN <<"I", "n", "f", "i", "n", "i", "t", "y">>
     ELSE <<"-", "I", "n", "f", "i", "n", "i", "t", "y">>)
  ELSE IF x.k = "null" THEN <<"n", "u", "l", "l">>
  ELSE (IF x.v < 0 THEN <<"-">> ELSE <<>>)
       \o NatStr(Abs(x.v) \div Scale) \o FracStr(Abs(x.v) % Scale)

\* Number.prototype.toFixed(2): the nearest hundredth, a tie taken upwards
\* in magnitude, always with two fraction digits
Round2(x) == IF x.k = "fin" THEN Fin(Sgn(x.v) * ((Abs(x.v) + 5) \div 10) * 10) ELSE x

toFixed2(x) ==
  IF x.k # "fin" THEN Str(x)
  ELSE LET h == (Abs(x.v) + 5) \div 10
       IN  (IF x.v < 0 THEN <<"-">> ELSE <<>>)
           \o NatStr(h \div 100)
           \o <<".", DigitChars[((h \div 10) % 10) + 1], DigitChars[(h % 10) + 1]>>

RECURSIVE SkipSpaces(_)
SkipSpaces(s) == IF s # <<>> /\ IsSpace(Head(s)) THEN SkipSpaces(Tail(s)) ELSE s

RECURSIVE DigitRun(_)
\* the longest prefix of s made of digits
DigitRun(s) == IF s # <<>> /\ IsDigit(Head(s)) THEN <<Head(s)>> \o DigitRun(Tail(s)) ELSE <<>>

RECURSIVE IntOf(_, _)
\* value of a digit string, saturating just above MaxNum
IntOf(s, acc) ==
  IF s = <<>> THEN acc
  ELSE IntOf(Tail(s), IF acc > MaxNum THEN acc ELSE acc * 10 + DigitVal(Head(s)))

Digit(s, i) == IF i <= Len(s) THEN DigitVal(s[i]) ELSE 0

\* parseFloat: optional white space and sign, digits, an optional fraction;
\* the longest prefix that is a number is read, NaN when there is none.
parseFloat(str) ==
  LET s0 == SkipSpaces(str)
      neg == s0 # <<>> /\ Head(s0) = "-"
      s1 == IF s0 # <<>> /\ Head(s0) \in {"-", "+"} THEN Tail(s0) ELSE s0
      ip == DigitRun(s1)
      r1 == SubSeq(s1, Len(ip) + 1, Len(s1))
      fp == IF r1 # <<>> /\ Head(r1) = "." THEN DigitRun(Tail(r1)) ELSE <<>>
      whole == IntOf(ip, 0)
      thousandths == 100 * Digit(fp, 1) + 10 * Digit(fp, 2) + Digit(fp, 3)
                     + (IF Digit(fp, 4) >= 5 THEN 1 ELSE 0)
      mag == whole * Scale + thousandths
  IN  IF Len(s1) >= 8 /\ SubSeq(s1, 1, 8) = <<"I", "n", "f", "i", "n", "i", "t", "y">>
        THEN (IF neg THEN NegInf ELSE PosInf)
      ELSE IF ip = <<>> /\ fp = <<>> THEN NaN
      ELSE IF whole > MaxNum THEN (IF neg THEN NegInf ELSE PosInf)
      ELSE Norm(IF neg THEN -mag ELSE mag)


ErrorStr == <<"E", "r", "r", "o", "r">>
ZeroStr == <<"0">>

\* ------------------------------------------------------------------- state
VARIABLES
  \* Calculator component state (useState)
  displayValue, previousValue, operator, waitingForOperand, calculationString,
  isLoading, error, isScannerOpen, isCameraViewOpen, scanResult, editableResult,
  isScanDetailsVisible, imageDataUrl,
  \* App state persisted through useLocalStorage
  history, customCategories, activeView,
  \* the calculator state captured by the memoized handleKeyPress
  kb,
  \* the processImage calls that have not resolved yet
  scans,
  \* bookkeeping: serials for generated ids and selected files, and the
  \* numbers of keypad inputs and staging edits so far
  nextId, nextFile, inputs, edits,
  \* the keys tapped since the calculator was mounted, kept while they form
  \* an entry, an operator, an entry and a closing key (Tracked)
  log,
  \* the CameraCapture component: its state, the getUserMedia calls and
  \* toBlob callbacks outstanding, and the streams whose tracks are live
  camera,
  \* what a pure function has returned: for validateAndSanitizeScanResult the
  \* raw response, the result of sanitizing it and the result of sanitizing
  \* that result again; for exportToCSV the text of the download
  san,
  \* the service worker (sw.js): the caches, the fetch events it has taken
  \* over and not answered yet, the cache writes it has started, and the
  \* answer given to the last request
  worker

calcVars == <<displayValue, previousValue, operator, waitingForOperand, calculationString>>
scanVars == <<isLoading, error, isScannerOpen, isCameraViewOpen, scanResult, editableResult,
              isScanDetailsVisible, imageDataUrl>>
appVars == <<history, customCategories, activeView>>
auxVars == <<nextId, nextFile, inputs, edits, log, camera>>
vars == <<calcVars, scanVars, appVars, kb, scans, auxVars, san, worker>>

\* operator symbols: "*" stands for the multiplication sign and "/" for the
\* division sign of the source
BinaryOps == {"+", "-", "*", "/", "x^y"}
UnaryOps == {"sq", "sqrt", "sin", "cos", "tan", "log", "ln"}
NoOp == "null"

OpStr(op) == IF op = "x^y" THEN <<"x", "^", "y">> ELSE <<op>>

\* the values a handler reads from the render that created it
Closure(d, p, o, w) ==
  [displayValue |-> d, previousValue |-> p, operator |-> o, waitingForOperand |-> w]

cur == Closure(displayValue, previousValue, operator, waitingForOperand)

\* A handler's effect is the set of state setters it calls, as a function
\* from the names of the state it sets to the new values; a later call wins.
NoUpdate == <<>>
Then(u1, u2) ==
  [f \in (DOMAIN u1) \cup (DOMAIN u2) |-> IF f \in DOMAIN u2 THEN u2[f] ELSE u1[f]]
Sets(u, f) == f \in DOMAIN u
Get(u, f, old) == IF f \in DOMAIN u THEN u[f] ELSE old

\* ------------------------------------------------------- arithmetic engine
\* handleCalculationError that keeps the pending operation
handleCalculationErrorKeepsPending ==
  [displayValue |-> ErrorStr, waitingForOperand |-> TRUE, calculationString |-> <<>>]

handleCalculationError ==
  [displayValue |-> ErrorStr, previousValue |-> null, operator |-> NoOp,
   waitingForOperand |-> TRUE, calculationString |-> <<>>]

clearAll ==
  [displayValue |-> ZeroStr, previousValue |-> null, operator |-> NoOp,
   waitingForOperand |-> TRUE, calculationString |-> <<>>]

\* clearEntry that resets the whole calculator in every state
clearEntryResets(c) == clearAll

clearEntry(c) ==
  IF c.displayValue = ErrorStr THEN clearAll
  ELSE [displayValue |-> ZeroStr]

\* toggleSign without the check for "Error"
toggleSignUnguarded(c) ==
  LET currentValue == parseFloat(c.displayValue)
  IN  IF currentValue # Fin(0)
        THEN [displayValue |-> Str(Mul(currentValue, Fin(-Scale)))]
        ELSE NoUpdate

toggleSign(c) ==
  IF c.displayValue = ErrorStr THEN NoUpdate
  ELSE LET currentValue == parseFloat(c.displayValue)
       IN  IF currentValue # Fin(0)
             THEN [displayValue |-> Str(Mul(currentValue, Fin(-Scale)))]
             ELSE NoUpdate

\* backspace without the check of waitingForOperand
backspaceUnguarded(c) ==
  IF c.displayValue = ErrorStr THEN NoUpdate
  ELSE IF Len(c.displayValue) > 1
    THEN [displayValue |-> SubSeq(c.displayValue, 1, Len(c.displayValue) - 1)]
  ELSE [displayValue |-> ZeroStr]

backspace(c) ==
  IF c.displayValue = ErrorStr \/ c.waitingForOperand THEN NoUpdate
  ELSE IF Len(c.displayValue) > 1
    THEN [displayValue |-> SubSeq(c.displayValue, 1, Len(c.displayValue) - 1)]
  ELSE [displayValue |-> ZeroStr]

\* inputDigit without the length check
inputDigitUncapped(c, digit) ==
  IF c.displayValue = ErrorStr \/ c.waitingForOperand
    THEN [displayValue |-> <<digit>>, waitingForOperand |-> FALSE]
  ELSE [displayValue |-> IF c.displayValue = ZeroStr THEN <<digit>>
                         ELSE c.displayValue \o <<digit>>]

inputDigit(c, digit) ==
  IF c.displayValue = ErrorStr
    THEN [displayValue |-> <<digit>>, waitingForOperand |-> FALSE]
  ELSE IF c.waitingForOperand
    THEN [displayValue |-> <<digit>>, waitingForOperand |-> FALSE]
  ELSE IF Len(c.displayValue) >= MaxDisplayLen THEN NoUpdate
  ELSE [displayValue |-> IF c.displayValue = ZeroStr THEN <<digit>>
                         ELSE c.displayValue \o <<digit>>]

inputDecimal(c) ==
  IF c.displayValue = ErrorStr THEN NoUpdate
  ELSE IF c.waitingForOperand
    THEN [displayValue |-> <<"0", ".">>, waitingForOperand |-> FALSE]
  ELSE IF ~(\E i \in 1..Len(c.displayValue) : c.displayValue[i] = ".")
    THEN [displayValue |-> c.displayValue \o <<".">>]
  ELSE NoUpdate

inputPercent(c) ==
  IF c.displayValue = ErrorStr THEN NoUpdate
  ELSE [displayValue |-> Str(Div(parseFloat(c.displayValue), Fin(100 * Scale)))]

calculate(prev, current, op) ==
  CASE op = "+" -> Add(prev, current)
    [] op = "-" -> Sub(prev, current)
    [] op = "*" -> Mul(prev, current)
    [] op = "/" -> Div(prev, current)
    [] op = "x^y" -> Pow(prev, current)
    [] OTHER -> current

\* performOperation without the check that the chained result is finite
performOperationUnchecked(c, nextOperator) ==
  IF c.displayValue = ErrorStr THEN NoUpdate
  ELSE LET inputValue == parseFloat(c.displayValue)
           tail == [waitingForOperand |-> TRUE, operator |-> nextOperator,
                    calculationString |-> Str(inputValue) \o <<" ">> \o OpStr(nextOperator)]
       IN  IF c.previousValue = null
             THEN Then([previousValue |-> inputValue], tail)
           ELSE IF c.operator # NoOp
             THEN LET result == calculate(c.previousValue, inputValue, c.operator)
                  IN  Then([previousValue |-> result, displayValue |-> Str(result)], tail)
           ELSE tail

\* performOperation that, while it waits for an operand, only replaces the
\* pending operator
performOperationReplacesOperator(c, nextOperator) ==
  IF c.displayValue = ErrorStr THEN NoUpdate
  ELSE LET inputValue == parseFloat(c.displayValue)
           tail == [waitingForOperand |-> TRUE, operator |-> nextOperator,
                    calculationString |-> Str(inputValue) \o <<" ">> \o OpStr(nextOperator)]
       IN  IF c.previousValue = null
             THEN Then([previousValue |-> inputValue], tail)
           ELSE IF c.operator # NoOp /\ ~c.waitingForOperand
             THEN LET result == calculate(c.previousValue, inputValue, c.operator)
                  IN  IF ~isFinite(result) THEN handleCalculationError
                      ELSE Then([previousValue |-> result, displayValue |-> Str(result)], tail)
           ELSE tail

performOperation(c, nextOperator) ==
  IF c.displayValue = ErrorStr THEN NoUpdate
  ELSE LET inputValue == parseFloat(c.displayValue)
           tail == [waitingForOperand |-> TRUE, operator |-> nextOperator,
                    calculationString |-> Str(inputValue) \o <<" ">> \o OpStr(nextOperator)]
       IN  IF c.previousValue = null
             THEN Then([previousValue |-> inputValue], tail)
           ELSE IF c.operator # NoOp
             THEN LET result == calculate(c.previousValue, inputValue, c.operator)
                  IN  IF ~isFinite(result) THEN handleCalculationError
                      ELSE Then([previousValue |-> result, displayValue |-> Str(result)], tail)
           ELSE tail

unaryResult(currentValue, operation) ==
  CASE operation = "sq" -> Pow(currentValue, Fin(2 * Scale))
    [] operation = "sqrt" -> Sqrt(currentValue)
    [] operation = "sin" -> SinDeg(currentValue)
    [] operation = "cos" -> CosDeg(currentValue)
    [] operation = "tan" -> TanDeg(currentValue)
    [] operation = "log" -> Log10(currentValue)
    [] operation = "ln" -> Ln(currentValue)

\* performUnaryOperation that also drops the pending operation
performUnaryOperationResets(c, operation) ==
  IF c.displayValue = ErrorStr THEN NoUpdate
  ELSE IF operation \notin UnaryOps THEN NoUpdate
  ELSE LET result == unaryResult(parseFloat(c.displayValue), operation)
       IN  IF ~isFinite(result) THEN handleCalculationError
           ELSE [displayValue |-> Str(result), waitingForOperand |-> TRUE,
                 previousValue |-> null, operator |-> NoOp]

performUnaryOperation(c, operation) ==
  IF c.displayValue = ErrorStr THEN NoUpdate
  ELSE IF operation \notin UnaryOps THEN NoUpdate
  ELSE LET result == unaryResult(parseFloat(c.displayValue), operation)
       IN  IF ~isFinite(result) THEN handleCalculationError
           ELSE [displayValue |-> Str(result), waitingForOperand |-> TRUE]

\* inputConstant that leaves the calculator waiting for an operand
inputConstantAwaits(c, constant) ==
  Then(IF c.displayValue = ErrorStr THEN clearAll ELSE NoUpdate,
       [displayValue |-> Str(IF constant = "pi" THEN MathPI ELSE MathE),
        waitingForOperand |-> TRUE])

inputConstant(c, constant) ==
  Then(IF c.displayValue = ErrorStr THEN clearAll ELSE NoUpdate,
       [displayValue |-> Str(IF constant = "pi" THEN MathPI ELSE MathE),
        waitingForOperand |-> FALSE])

\* handleEquals without setPreviousValue(null)
handleEqualsKeepsOperand(c) ==
  IF c.operator # NoOp /\ c.previousValue # null
    THEN LET inputValue == parseFloat(c.displayValue)
             result == calculate(c.previousValue, inputValue, c.operator)
             fullCalculation == Str(c.previousValue) \o <<" ">> \o OpStr(c.operator)
                                  \o <<" ">> \o Str(inputValue)
         IN  IF ~isFinite(result) THEN handleCalculationError
             ELSE [addHistory |-> [type |-> "manual", total |-> result,
                                   calculation |-> fullCalculation],
                   displayValue |-> Str(result),
                   operator |-> NoOp, waitingForOperand |-> TRUE,
                   calculationString |-> fullCalculation \o <<" ", "=">>]
  ELSE NoUpdate

\* handleEquals that, with no operator pending, records the entry as a
\* calculation of its own
handleEqualsUnguarded(c) ==
  LET inputValue == parseFloat(c.displayValue)
  IN  IF c.operator # NoOp /\ c.previousValue # null
        THEN LET result == calculate(c.previousValue, inputValue, c.operator)
                 fullCalculation == Str(c.previousValue) \o <<" ">> \o OpStr(c.operator)
                                      \o <<" ">> \o Str(inputValue)
             IN  IF ~isFinite(result) THEN handleCalculationError
                 ELSE [addHistory |-> [type |-> "manual", total |-> result,
                                       calculation |-> fullCalculation],
                       displayValue |-> Str(result), previousValue |-> null,
                       operator |-> NoOp, waitingForOperand |-> TRUE,
                       calculationString |-> fullCalculation \o <<" ", "=">>]
      ELSE IF ~isFinite(inputValue) THEN handleCalculationError
      ELSE [addHistory |-> [type |-> "manual", total |-> inputValue,
                            calculation |-> Str(inputValue)],
            displayValue |-> Str(inputValue), waitingForOperand |-> TRUE,
            calculationString |-> Str(inputValue) \o <<" ", "=">>]

\* handleEquals with the operands passed to calculate in the wrong order
handleEqualsSwapped(c) ==
  IF c.operator # NoOp /\ c.previousValue # null
    THEN LET inputValue == parseFloat(c.displayValue)
             result == calculate(inputValue, c.previousValue, c.operator)
             fullCalculation == Str(c.previousValue) \o <<" ">> \o OpStr(c.operator)
                                  \o <<" ">> \o Str(inputValue)
         IN  IF ~isFinite(result) THEN handleCalculationError
             ELSE [addHistory |-> [type |-> "manual", total |-> result,
                                   calculation |-> fullCalculation],
                   displayValue |-> Str(result), previousValue |-> null,
                   operator |-> NoOp, waitingForOperand |-> TRUE,
                   calculationString |-> fullCalculation \o <<" ", "=">>]
  ELSE NoUpdate

handleEquals(c) ==
  IF c.operator # NoOp /\ c.previousValue # null
    THEN LET inputValue == parseFloat(c.displayValue)
             result == calculate(c.previousValue, inputValue, c.operator)
             fullCalculation == Str(c.previousValue) \o <<" ">> \o OpStr(c.operator)
                                  \o <<" ">> \o Str(inputValue)
         IN  IF ~isFinite(result) THEN handleCalculationError
             ELSE [addHistory |-> [type |-> "manual", total |-> result,
                                   calculation |-> fullCalculation],
                   displayValue |-> Str(result), previousValue |-> null,
                   operator |-> NoOp, waitingForOperand |-> TRUE,
                   calculationString |-> fullCalculation \o <<" ", "=">>]
  ELSE NoUpdate

\* the on-screen clear key: all-clear when nothing is pending, else clear-entry
clearButton(c) ==
  IF c.operator = NoOp /\ c.waitingForOperand THEN clearAll ELSE clearEntry(c)

\* --------------------------------------------------- untrusted scan payload
\* A JavaScript value of the parsed AI response: its type tag, and its
\* number or its characters where the type has them.
JSUndefined == [t |-> "undefined", n |-> Fin(0), s |-> <<>>]
JSNull == [t |-> "null", n |-> Fin(0), s |-> <<>>]
JSNum(x) == [t |-> "number", n |-> x, s |-> <<>>]
JSStr(str) == [t |-> "string", n |-> Fin(0), s |-> str]
JSBool(b) == [t |-> "boolean", n |-> Fin(IF b THEN Scale ELSE 0), s |-> <<>>]

\* v used as a condition (v || fallback)
Truthy(v) ==
  CASE v.t = "number" -> v.n.k # "nan" /\ v.n # Fin(0)
    [] v.t = "string" -> v.s # <<>>
    [] v.t = "boolean" -> v.n # Fin(0)
    [] OTHER -> FALSE

\* String(v)
ToStr(v) ==
  CASE v.t = "number" -> Str(v.n)
    [] v.t = "string" -> v.s
    [] v.t = "boolean" -> IF v.n # Fin(0) THEN <<"t", "r", "u", "e">>
                          ELSE <<"f", "a", "l", "s", "e">>
    [] v.t = "null" -> <<"n", "u", "l", "l">>
    [] OTHER -> <<"u", "n", "d", "e", "f", "i", "n", "e", "d">>

RECURSIVE TrimLeft(_)
TrimLeft(s) == IF s # <<>> /\ IsSpace(Head(s)) THEN TrimLeft(Tail(s)) ELSE s
RECURSIVE TrimRight(_)
TrimRight(s) ==
  IF s # <<>> /\ IsSpace(s[Len(s)]) THEN TrimRight(SubSeq(s, 1, Len(s) - 1)) ELSE s
\* String.prototype.trim
trim(s) == TrimRight(TrimLeft(s))

\* value.replace(/[^0-9.-]+/g, "")
cleanedString(s) == SelectSeq(s, LAMBDA c : IsDigit(c) \/ c = "." \/ c = "-")

UnnamedItem == <<"U", "n", "n", "a", "m", "e", "d", " ", "I", "t", "e", "m">>
Uncategorized == <<"U", "n", "c", "a", "t", "e", "g", "o", "r", "i", "z", "e", "d">>

\* An element of raw.items: whether it is an object, and its two fields.
RawItem(isObj, amount, description) ==
  [isObject |-> isObj, amount |-> amount, description |-> description]
\* The raw response: whether it is an object, whether raw.items is an array,
\* its elements, and the category and total fields it carries.
RawResult(isObj, isArr, items, category, total) ==
  [isObject |-> isObj, itemsIsArray |-> isArr, items |-> items,
   category |-> category, total |-> total]

\* parseSanitizedAmount on a string (the staging amount text)
parseSanitizedAmount(value) ==
  LET parsed == parseFloat(cleanedString(value))
  IN  IF isNaN(parsed) \/ ~isFinite(parsed) THEN Fin(0) ELSE parsed

\* itemAmount that counts an unparseable amount string as 0
itemAmountLenient(item) ==
  LET rawAmount == item.amount
  IN  IF ~item.isObject THEN null
      ELSE IF rawAmount.t = "number" /\ isFinite(rawAmount.n) THEN rawAmount.n
      ELSE IF rawAmount.t = "string" THEN parseSanitizedAmount(rawAmount.s)
      ELSE null

\* the amount of an element, or null when the element is skipped
itemAmount(item) ==
  LET rawAmount == item.amount
  IN  IF ~item.isObject THEN null
      ELSE IF rawAmount.t = "number" /\ isFinite(rawAmount.n) THEN rawAmount.n
      ELSE IF rawAmount.t = "string"
        THEN LET parsed == parseFloat(cleanedString(rawAmount.s))
             IN  IF ~isNaN(parsed) /\ isFinite(parsed) THEN parsed ELSE null
      ELSE null

itemDescription(item) ==
  trim(IF Truthy(item.description) THEN ToStr(item.description) ELSE UnnamedItem)

RECURSIVE sanitizeItems(_)
sanitizeItems(items) ==
  IF items = <<>> THEN <<>>
  ELSE LET item == Head(items)
           amount == itemAmount(item)
       IN  (IF amount = null THEN <<>>
            ELSE <<[description |-> itemDescription(item),
                    amount |-> parseFloat(toFixed2(amount))]>>)
           \o sanitizeItems(Tail(items))

RECURSIVE sumAmounts(_)
\* items.reduce((sum, item) => sum + item.amount, 0)
sumAmounts(items) ==
  IF items = <<>> THEN Fin(0)
  ELSE Add(sumAmounts(SubSeq(items, 1, Len(items) - 1)), items[Len(items)].amount)

\* the total taken from the response when it carries one
sanitizedTotalTrusted(rawResult, sanitizedItems) ==
  IF rawResult.total.t = "number" /\ isFinite(rawResult.total.n)
    THEN parseFloat(toFixed2(rawResult.total.n))
  ELSE parseFloat(toFixed2(sumAmounts(sanitizedItems)))

sanitizedTotal(rawResult, sanitizedItems) ==
  parseFloat(toFixed2(sumAmounts(sanitizedItems)))

sanitizedCategory(rawResult) ==
  trim(IF Truthy(rawResult.category) THEN ToStr(rawResult.category) ELSE Uncategorized)

\* validateAndSanitizeScanResult: ok is FALSE when it throws
validateAndSanitizeScanResult(rawResult) ==
  IF ~rawResult.isObject
    THEN [ok |-> FALSE, items |-> <<>>, total |-> Fin(0), category |-> <<>>]
  ELSE LET items == IF rawResult.itemsIsArray THEN rawResult.items ELSE <<>>
           sanitizedItems == sanitizeItems(items)
       IN  [ok |-> TRUE, items |-> sanitizedItems,
            total |-> sanitizedTotal(rawResult, sanitizedItems),
            category |-> sanitizedCategory(rawResult)]

\* a sanitized result handed back as a raw response
AsRaw(result) ==
  RawResult(TRUE, TRUE,
            [i \in 1..Len(result.items) |->
               RawItem(TRUE, JSNum(result.items[i].amount), JSStr(result.items[i].description))],
            JSStr(result.category), JSNum(result.total))

\* ------------------------------------------------------ history, categories
Undefined == <<"undefined">>
NoImage == 0
NoError == "null"
None == <<>>
Some(x) == <<x>>

Take(s, n) == SubSeq(s, 1, IF Len(s) < n THEN Len(s) ELSE n)

\* the HistoryItem built from what a caller passes to addHistoryItem
HistoryItem(item, id) ==
  [id |-> id,
   type |-> item.type,
   total |-> item.total,
   calculation |-> IF "calculation" \in DOMAIN item THEN item.calculation ELSE Undefined,
   description |-> IF "description" \in DOMAIN item THEN item.description ELSE Undefined,
   category |-> IF "category" \in DOMAIN item THEN item.category ELSE Undefined,
   imageDataUrl |-> IF "imageDataUrl" \in DOMAIN item THEN item.imageDataUrl ELSE NoImage]

\* setHistory(prevHistory => [newItem, ...prevHistory]) without the slice
addHistoryItemUncapped(prevHistory, item, id) == <<HistoryItem(item, id)>> \o prevHistory

\* setHistory(prevHistory => [newItem, ...prevHistory].slice(0, 50))
addHistoryItem(prevHistory, item, id) ==
  Take(<<HistoryItem(item, id)>> \o prevHistory, HistoryCap)

\* UTF-16 code unit order of the characters used
CodeOrder ==
  <<" ", "$", "&", "-", ".", "0", "1", "2", "3", "4", "5", "6", "7", "8", "9",
    "A", "B", "C", "D", "E", "F", "G", "H", "I", "J", "K", "L", "M", "N", "O", "P", "Q",
    "R", "S", "T", "U", "V", "W", "X", "Y", "Z", "[", "]",
    "a", "b", "c", "d", "e", "f", "g", "h", "i", "j", "k", "l", "m", "n", "o", "p", "q",
    "r", "s", "t", "u", "v", "w", "x", "y", "z">>
CharCode(c) == CHOOSE i \in 1..Len(CodeOrder) : CodeOrder[i] = c
UpperChars ==
  <<"A", "B", "C", "D", "E", "F", "G", "H", "I", "J", "K", "L", "M", "N", "O", "P", "Q",
    "R", "S", "T", "U", "V", "W", "X", "Y", "Z">>
LowerChars ==
  <<"a", "b", "c", "d", "e", "f", "g", "h", "i", "j", "k", "l", "m", "n", "o", "p", "q",
    "r", "s", "t", "u", "v", "w", "x", "y", "z">>
LowerChar(c) ==
  IF \E i \in 1..26 : UpperChars[i] = c
    THEN LowerChars[CHOOSE i \in 1..26 : UpperChars[i] = c]
  ELSE c
\* String.prototype.toLowerCase
toLowerCase(s) == [i \in 1..Len(s) |-> LowerChar(s[i])]

RECURSIVE StrLess(_, _)
\* a < b as the default Array.prototype.sort compares strings
StrLess(a, b) ==
  IF b = <<>> THEN FALSE
  ELSE IF a = <<>> THEN TRUE
  ELSE IF Head(a) = Head(b) THEN StrLess(Tail(a), Tail(b))
  ELSE CharCode(Head(a)) < CharCode(Head(b))

RECURSIVE InsertSorted(_, _)
InsertSorted(s, x) ==
  IF s = <<>> THEN <<x>>
  ELSE IF StrLess(x, Head(s)) THEN <<x>> \o s
  ELSE <<Head(s)>> \o InsertSorted(Tail(s), x)

RECURSIVE sort(_)
\* Array.prototype.sort() with the default comparison
sort(s) == IF s = <<>> THEN <<>> ELSE InsertSorted(sort(Tail(s)), Head(s))

\* customCategories.some(c => c === name): the comparison without toLowerCase
hasCategoryExact(categories, name) ==
  \E i \in 1..Len(categories) : categories[i] = name

hasCategory(categories, name) ==
  \E i \in 1..Len(categories) : toLowerCase(categories[i]) = toLowerCase(name)

\* setCustomCategories(prev => [...prev, name].sort())
addCategory(prev, name) == sort(prev \o <<name>>)

DefaultCategories ==
  << <<"F", "o", "o", "d", " ", "&", " ", "D", "r", "i", "n", "k">>,
     <<"G", "r", "o", "c", "e", "r", "i", "e", "s">>,
     <<"S", "h", "o", "p", "p", "i", "n", "g">>,
     <<"T", "r", "a", "n", "s", "p", "o", "r", "t">>,
     <<"U", "t", "i", "l", "i", "t", "i", "e", "s">>,
     <<"H", "e", "a", "l", "t", "h">>,
     <<"E", "n", "t", "e", "r", "t", "a", "i", "n", "m", "e", "n", "t">>,
     <<"H", "o", "m", "e">>,
     <<"P", "e", "r", "s", "o", "n", "a", "l", " ", "C", "a", "r", "e">>,
     <<"U", "n", "c", "a", "t", "e", "g", "o", "r", "i", "z", "e", "d">> >>

\* --------------------------------------------------------- camera capture
\* no stream: the value null of CameraCapture's state stream
NoStream == 0

\* no CameraCapture has been rendered yet
NoCamera ==
  [stream |-> NoStream, error |-> FALSE, opened |-> 0, requests |-> {}, blobs |-> {},
   live |-> {}]

\* CameraCapture is rendered: useState(null) twice, and the effect calls
\* startStream, which sees stream = null and awaits getUserMedia
cameraMount(cam) ==
  [cam EXCEPT !.stream = NoStream, !.error = FALSE, !.opened = cam.opened + 1,
              !.requests = cam.requests \cup {[mount |-> cam.opened + 1, isMounted |-> TRUE]}]

\* stopStream as created by a render in which the state stream is str
stopStream(cam, str, mounted) ==
  IF str # NoStream
    THEN [cam EXCEPT !.live = cam.live \ {str},
                     !.stream = IF mounted THEN NoStream ELSE cam.stream]
  ELSE cam

\* CameraCapture is removed: the cleanup of the effect sets isMounted to
\* false and calls the stopStream of the first render, whose stream is null
cameraCleanup(cam) ==
  LET left == [cam EXCEPT !.requests = {[r EXCEPT !.isMounted = FALSE] : r \in cam.requests},
                          !.stream = NoStream, !.error = FALSE]
  IN  stopStream(left, NoStream, FALSE)

\* ------------------------------------------------------- applying a handler
\* The state after a handler has run: each state it set takes the new value,
\* the functional updates of history and categories are applied to their
\* current values, and handleKeyPress is created anew (capturing the
\* calculator state of that render) when one of its dependencies changed.
\* the render after a handler has made the update u
Commit(u) ==
  /\ displayValue' = Get(u, "displayValue", displayValue)
  /\ previousValue' = Get(u, "previousValue", previousValue)
  /\ operator' = Get(u, "operator", operator)
  /\ waitingForOperand' = Get(u, "waitingForOperand", waitingForOperand)
  /\ calculationString' = Get(u, "calculationString", calculationString)
  /\ isLoading' = Get(u, "isLoading", isLoading)
  /\ error' = Get(u, "error", error)
  /\ isScannerOpen' = Get(u, "isScannerOpen", isScannerOpen)
  /\ isCameraViewOpen' = Get(u, "isCameraViewOpen", isCameraViewOpen)
  /\ scanResult' = Get(u, "scanResult", scanResult)
  /\ editableResult' = Get(u, "editableResult", editableResult)
  /\ isScanDetailsVisible' = Get(u, "isScanDetailsVisible", isScanDetailsVisible)
  /\ imageDataUrl' = Get(u, "imageDataUrl", imageDataUrl)
  /\ IF Sets(u, "addHistory")
       THEN /\ nextId <= MaxInserts
            /\ history' = addHistoryItem(history, u["addHistory"], nextId)
            /\ nextId' = nextId + 1
       ELSE UNCHANGED <<history, nextId>>
  /\ customCategories' = IF Sets(u, "addCategory")
                           THEN addCategory(customCategories, u["addCategory"])
                           ELSE customCategories
  /\ camera' = IF isCameraViewOpen /\ ~isCameraViewOpen'
                 THEN cameraCleanup(Get(u, "camera", camera))
               ELSE IF ~isCameraViewOpen /\ isCameraViewOpen'
                 THEN cameraMount(Get(u, "camera", camera))
               ELSE Get(u, "camera", camera)
  /\ kb' = IF <<isScannerOpen', isScanDetailsVisible', isCameraViewOpen'>>
                # <<isScannerOpen, isScanDetailsVisible, isCameraViewOpen>>
             THEN Closure(displayValue', previousValue', operator', waitingForOperand')
             ELSE kb

\* the update a handler makes is evaluated once and then committed
Apply(u) == \E update \in {u} : Commit(update)

\* ------------------------------------------------------------ scan pipeline
ErrRead == "Could not read image file."
ErrFormat == "Invalid response format from AI. Expected an object."
ErrNoData == "Could not detect any valid line items or amounts on the receipt."
ErrSyntax == "Failed to analyze the receipt. The AI returned an invalid data format."
ErrService == "Failed to analyze the receipt. The AI model could not process the image."

\* x <= 0 on numbers
LeqZero(x) == (x.k = "fin" /\ x.v <= 0) \/ (x.k = "inf" /\ x.v < 0)

\* processImage up to its first await
processImageStart == [isLoading |-> TRUE, error |-> NoError]

processImageFinally == [isLoading |-> FALSE, isScannerOpen |-> FALSE]

\* the catch block without setImageDataUrl(null)
processImageCatchKeepsImage(message) ==
  Then([error |-> message], processImageFinally)

processImageCatch(message) ==
  Then([error |-> message, imageDataUrl |-> NoImage], processImageFinally)

\* the staging mirror of a sanitized result: amounts as text
editableOf(sanitizedResult) ==
  [total |-> sanitizedResult.total,
   category |-> sanitizedResult.category,
   items |-> [i \in 1..Len(sanitizedResult.items) |->
                [description |-> sanitizedResult.items[i].description,
                 amount |-> toFixed2(sanitizedResult.items[i].amount)]]]

\* processImage without the check for an empty item list or a total <= 0
processImageStageUnchecked(sanitizedResult) ==
  IF ~sanitizedResult.ok THEN processImageCatch(ErrFormat)
  ELSE Then([scanResult |-> Some([total |-> sanitizedResult.total,
                                  category |-> sanitizedResult.category,
                                  items |-> sanitizedResult.items]),
             editableResult |-> Some(editableOf(sanitizedResult)),
             isScanDetailsVisible |-> TRUE],
            processImageFinally)

\* processImage after validateAndSanitizeScanResult has returned
\* sanitizedResult or has thrown (ok is FALSE)
processImageStage(sanitizedResult) ==
  IF ~sanitizedResult.ok THEN processImageCatch(ErrFormat)
  ELSE IF Len(sanitizedResult.items) = 0 \/ LeqZero(sanitizedResult.total)
    THEN processImageCatch(ErrNoData)
  ELSE Then([scanResult |-> Some([total |-> sanitizedResult.total,
                                  category |-> sanitizedResult.category,
                                  items |-> sanitizedResult.items]),
             editableResult |-> Some(editableOf(sanitizedResult)),
             isScanDetailsVisible |-> TRUE],
            processImageFinally)

RECURSIVE stagedSum(_)
stagedSum(items) ==
  IF items = <<>> THEN Fin(0)
  ELSE Add(stagedSum(SubSeq(items, 1, Len(items) - 1)),
           parseSanitizedAmount(items[Len(items)].amount))

handleEditableResultUpdate(updatedResult) ==
  [editableResult |->
     Some([updatedResult EXCEPT !.total = parseFloat(toFixed2(stagedSum(updatedResult.items)))])]

handleItemChange(staged, index, field, value) ==
  IF staged = None THEN NoUpdate
  ELSE LET e == staged[1]
           newItems == [e.items EXCEPT ![index] =
                          IF field = "description" THEN [@ EXCEPT !.description = value]
                          ELSE [@ EXCEPT !.amount = value]]
       IN  handleEditableResultUpdate([e EXCEPT !.items = newItems])

\* handleAddItem that puts the blank item first
handleAddItemFirst(staged) ==
  IF staged = None THEN NoUpdate
  ELSE LET e == staged[1]
       IN  handleEditableResultUpdate(
             [e EXCEPT !.items = <<[description |-> <<>>,
                                    amount |-> <<"0", ".", "0", "0">>]>> \o @])

handleAddItem(staged) ==
  IF staged = None THEN NoUpdate
  ELSE LET e == staged[1]
       IN  handleEditableResultUpdate(
             [e EXCEPT !.items = @ \o <<[description |-> <<>>,
                                         amount |-> <<"0", ".", "0", "0">>]>>])

\* handleRemoveItem that sets the items without recomputing the total
handleRemoveItemKeepsTotal(staged, index) ==
  IF staged = None THEN NoUpdate
  ELSE LET e == staged[1]
           newItems == SubSeq(e.items, 1, index - 1) \o SubSeq(e.items, index + 1, Len(e.items))
       IN  [editableResult |-> Some([e EXCEPT !.items = newItems])]

handleRemoveItem(staged, index) ==
  IF staged = None THEN NoUpdate
  ELSE LET e == staged[1]
           newItems == SubSeq(e.items, 1, index - 1) \o SubSeq(e.items, index + 1, Len(e.items))
       IN  handleEditableResultUpdate([e EXCEPT !.items = newItems])

handleCategoryChange(staged, value) ==
  IF staged = None THEN NoUpdate
  ELSE [editableResult |-> Some([staged[1] EXCEPT !.category = value])]

handleCategoryInputBlur(staged, categories) ==
  IF staged = None THEN NoUpdate
  ELSE LET newCategory == trim(staged[1].category)
       IN  IF newCategory # <<>> /\ ~hasCategory(categories, newCategory)
             THEN [addCategory |-> newCategory]
           ELSE NoUpdate

RECURSIVE joinPlus(_)
\* amounts.join(' + ')
joinPlus(amounts) ==
  IF amounts = <<>> THEN <<>>
  ELSE IF Len(amounts) = 1 THEN Str(amounts[1])
  ELSE joinPlus(SubSeq(amounts, 1, Len(amounts) - 1))
         \o <<" ", "+", " ">> \o Str(amounts[Len(amounts)])

clearStaging ==
  [isScanDetailsVisible |-> FALSE, scanResult |-> None, editableResult |-> None,
   imageDataUrl |-> NoImage]

\* handleConfirmScan without the check that the staged result has an item
handleConfirmScanUnchecked(staged, categories, image) ==
  IF staged # None
    THEN LET e == staged[1]
             total == e.total
             calculationExpression ==
               joinPlus([i \in 1..Len(e.items) |-> parseSanitizedAmount(e.items[i].amount)])
             finalCategory == trim(e.category)
             shown == [displayValue |-> Str(total),
                       calculationString |-> calculationExpression \o <<" ", "=">>,
                       previousValue |-> null, operator |-> NoOp,
                       waitingForOperand |-> TRUE]
             added == IF finalCategory # <<>> /\ ~hasCategory(categories, finalCategory)
                        THEN [addCategory |-> finalCategory] ELSE NoUpdate
             logged == [addHistory |-> [type |-> "scan", total |-> total,
                                        category |-> finalCategory,
                                        imageDataUrl |-> image,
                                        calculation |-> calculationExpression]]
         IN  Then(Then(Then(shown, added), logged), clearStaging)
  ELSE clearStaging

\* handleConfirmScan without setPreviousValue(null) and setOperator(null)
handleConfirmScanKeepsOperator(staged, categories, image) ==
  IF staged # None /\ Len(staged[1].items) > 0
    THEN LET e == staged[1]
             total == e.total
             calculationExpression ==
               joinPlus([i \in 1..Len(e.items) |-> parseSanitizedAmount(e.items[i].amount)])
             finalCategory == trim(e.category)
             shown == [displayValue |-> Str(total),
                       calculationString |-> calculationExpression \o <<" ", "=">>,
                       waitingForOperand |-> TRUE]
             added == IF finalCategory # <<>> /\ ~hasCategory(categories, finalCategory)
                        THEN [addCategory |-> finalCategory] ELSE NoUpdate
             logged == [addHistory |-> [type |-> "scan", total |-> total,
                                        category |-> finalCategory,
                                        imageDataUrl |-> image,
                                        calculation |-> calculationExpression]]
         IN  Then(Then(Then(shown, added), logged), clearStaging)
  ELSE clearStaging

handleConfirmScan(staged, categories, image) ==
  IF staged # None /\ Len(staged[1].items) > 0
    THEN LET e == staged[1]
             total == e.total
             calculationExpression ==
               joinPlus([i \in 1..Len(e.items) |-> parseSanitizedAmount(e.items[i].amount)])
             finalCategory == trim(e.category)
             shown == [displayValue |-> Str(total),
                       calculationString |-> calculationExpression \o <<" ", "=">>,
                       previousValue |-> null, operator |-> NoOp,
                       waitingForOperand |-> TRUE]
             added == IF finalCategory # <<>> /\ ~hasCategory(categories, finalCategory)
                        THEN [addCategory |-> finalCategory] ELSE NoUpdate
             logged == [addHistory |-> [type |-> "scan", total |-> total,
                                        category |-> finalCategory,
                                        imageDataUrl |-> image,
                                        calculation |-> calculationExpression]]
         IN  Then(Then(Then(shown, added), logged), clearStaging)
  ELSE clearStaging

\* handleDiscardScan without clearAll()
handleDiscardScanKeepsEntry == clearStaging

handleDiscardScan == Then(clearStaging, clearAll)

\* ------------------------------------------------------ category management
\* History.handleAddCategory: the category list after the form is submitted
\* with the text newCategoryInput
handleAddCategory(categories, newCategoryInput) ==
  LET newCat == trim(newCategoryInput)
  IN  IF newCat = <<>> THEN categories
      ELSE IF hasCategory(categories, newCat) THEN categories
      ELSE addCategory(categories, newCat)

\* History.handleRenameCategory without the update of the history items
handleRenameCategoryListOnly(categories, ledger, oldName, newCategoryName) ==
  LET newName == trim(newCategoryName)
  IN  IF newName = <<>> \/ newName = oldName \/ hasCategory(categories, newName)
        THEN [customCategories |-> categories, history |-> ledger]
      ELSE [customCategories |->
              sort([i \in 1..Len(categories) |->
                      IF categories[i] = oldName THEN newName ELSE categories[i]]),
            history |-> ledger]

\* History.handleRenameCategory: the category list and the ledger after the
\* rename of oldName is submitted with the text newCategoryName
handleRenameCategory(categories, ledger, oldName, newCategoryName) ==
  LET newName == trim(newCategoryName)
  IN  IF newName = <<>> \/ newName = oldName
        THEN [customCategories |-> categories, history |-> ledger]
      ELSE IF hasCategory(categories, newName)
        THEN [customCategories |-> categories, history |-> ledger]
      ELSE [customCategories |->
              sort([i \in 1..Len(categories) |->
                      IF categories[i] = oldName THEN newName ELSE categories[i]]),
            history |->
              [i \in 1..Len(ledger) |->
                 IF ledger[i].category = oldName
                   THEN [ledger[i] EXCEPT !.category = newName]
                 ELSE ledger[i]]]

\* History.handleDeleteCategory once the user has confirmed
handleDeleteCategory(categories, categoryToDelete) ==
  SelectSeq(categories, LAMBDA c : c # categoryToDelete)

\* Calculator.handleAddExpense with the texts of the expense form
handleAddExpense(categories, expenseAmount, expenseDescription, expenseCategory) ==
  LET amount == parseFloat(expenseAmount)
      newCat == trim(expenseCategory)
  IN  IF expenseAmount = <<>> \/ isNaN(amount) \/ LeqZero(amount) THEN NoUpdate
      ELSE IF newCat = <<>> THEN NoUpdate
      ELSE Then([addHistory |->
                   [type |-> "expense", total |-> amount,
                    description |-> IF trim(expenseDescription) = <<>> THEN Undefined
                                    ELSE trim(expenseDescription),
                    category |-> newCat]],
                IF ~hasCategory(categories, newCat)
                  THEN [addCategory |-> newCat] ELSE NoUpdate)

\* ----------------------------------------------------------- CSV export
CsvHeaders ==
  <<<<"I", "D">>,
    <<"D", "a", "t", "e">>,
    <<"T", "y", "p", "e">>,
    <<"T", "o", "t", "a", "l">>,
    <<"D", "e", "s", "c", "r", "i", "p", "t", "i", "o", "n">>,
    <<"C", "a", "l", "c", "u", "l", "a", "t", "i", "o", "n">>,
    <<"C", "a", "t", "e", "g", "o", "r", "y">>>>

RECURSIVE join(_, _)
\* Array.prototype.join
join(parts, separator) ==
  IF parts = <<>> THEN <<>>
  ELSE IF Len(parts) = 1 THEN parts[1]
  ELSE parts[1] \o separator \o join(Tail(parts), separator)

Includes(str, ch) == \E i \in 1..Len(str) : str[i] = ch

RECURSIVE DoubleQuotes(_)
\* str.replace(/"/g, '""')
DoubleQuotes(str) ==
  IF str = <<>> THEN <<>>
  ELSE (IF Head(str) = "\"" THEN <<"\"", "\"">> ELSE <<Head(str)>>)
         \o DoubleQuotes(Tail(str))

\* escapeCSV that returns every field as it is
escapeCSVPlain(str) == str

\* escapeCSV of a field whose string form is str ('' for null and undefined)
escapeCSV(str) ==
  IF Includes(str, ",") \/ Includes(str, "\"") \/ Includes(str, "\n")
    THEN <<"\"">> \o DoubleQuotes(str) \o <<"\"">>
  ELSE str

\* String(item.type)
TypeText(type) ==
  CASE type = "manual" -> <<"m", "a", "n", "u", "a", "l">>
    [] type = "scan" -> <<"s", "c", "a", "n">>
    [] type = "expense" -> <<"e", "x", "p", "e", "n", "s", "e">>

\* item.date, written when the entry was inserted: the model's clock is the
\* insertion serial
DateText(item) == <<"T">> \o NatStr(item.id)

\* field || '' for an optional text field
OrEmpty(field) == IF field = Undefined THEN <<>> ELSE field

\* one row of exportToCSV
csvRow(item) ==
  join(<<escapeCSV(NatStr(item.id)),
         escapeCSV(DateText(item)),
         escapeCSV(TypeText(item.type)),
         escapeCSV(Str(item.total)),
         escapeCSV(OrEmpty(item.description)),
         escapeCSV(OrEmpty(item.calculation)),
         escapeCSV(OrEmpty(item.category))>>, <<",">>)

\* [...history].reverse()
reverse(s) == [i \in 1..Len(s) |-> s[Len(s) - i + 1]]

\* the text that exportToCSV offers for download
exportToCSV(ledger) ==
  LET reversedHistory == reverse(ledger)
      csvRows == <<join(CsvHeaders, <<",">>)>>
                   \o [i \in 1..Len(ledger) |-> csvRow(reversedHistory[i])]
  IN  join(csvRows, <<"\n">>)

\* the position i of text lies outside the quoted fields: an even number of
\* double quotes precede it
Outside(text, i) == Cardinality({k \in 1..(i - 1) : text[k] = "\""}) % 2 = 0

\* the k-th smallest member of a set of positions
Nth(positions, k) ==
  CHOOSE x \in positions : Cardinality({y \in positions : y <= x}) = k

\* the pieces of text between the positions breaks
Split(text, breaks) ==
  LET n == Cardinality(breaks)
  IN  [k \in 1..(n + 1) |->
         SubSeq(text,
                IF k = 1 THEN 1 ELSE Nth(breaks, k - 1) + 1,
                IF k = n + 1 THEN Len(text) ELSE Nth(breaks, k) - 1)]

\* the value of a field: an enclosing pair of double quotes is removed and
\* of every doubled double quote inside it one is kept
Unquote(field) ==
  IF field # <<>> /\ Head(field) = "\""
    THEN LET inner == SubSeq(field, 2, Len(field) - 1)
             kept == {k \in 1..Len(inner) :
                        \/ inner[k] # "\""
                        \/ Cardinality({j \in 1..k : inner[j] = "\""}) % 2 = 1}
         IN  [k \in 1..Cardinality(kept) |-> inner[Nth(kept, k)]]
  ELSE field

\* an RFC 4180 reader: records end at the line breaks outside quoted fields,
\* fields at the commas outside quoted fields
ParseCSV(text) ==
  LET records == Split(text, {i \in 1..Len(text) : text[i] = "\n" /\ Outside(text, i)})
  IN  [r \in 1..Len(records) |->
         LET fields == Split(records[r],
                             {i \in 1..Len(records[r]) :
                                records[r][i] = "," /\ Outside(records[r], i)})
         IN  [f \in 1..Len(fields) |-> Unquote(fields[f])]]

\* ----------------------------------------------------------------- actions
InitialClosure == Closure(ZeroStr, null, NoOp, TRUE)

\* the state of a freshly mounted Calculator
Mount ==
  /\ displayValue = ZeroStr
  /\ previousValue = null
  /\ operator = NoOp
  /\ waitingForOperand = TRUE
  /\ calculationString = <<>>
  /\ isLoading = FALSE
  /\ error = NoError
  /\ isScannerOpen = FALSE
  /\ isCameraViewOpen = FALSE
  /\ scanResult = None
  /\ editableResult = None
  /\ isScanDetailsVisible = FALSE
  /\ imageDataUrl = NoImage
  /\ kb = InitialClosure

\* no service worker is registered
NoWorker == [stage |-> "none"]

\* no response is under sanitization
NoProbe == [stage |-> "none"]

Fresh ==
  /\ Mount
  /\ history = <<>>
  /\ customCategories = DefaultCategories
  /\ activeView = "Calculator"
  /\ scans = {}
  /\ nextId = 1
  /\ nextFile = 1
  /\ inputs = 0
  /\ edits = 0
  /\ log = <<>>
  /\ camera = NoCamera

Init == Fresh /\ san = NoProbe /\ worker = NoWorker

ModelDigits == {DigitChars[i] : i \in 1..(MaxDigit + 1)}

DigitCount(s) == Len(SelectSeq(s, IsDigit))

\* an overlay (scanner dialog or camera view) covers the calculator
ModalOpen == isScannerOpen \/ isCameraViewOpen

\* the keypad takes taps: it is disabled while staging is shown
KeypadEnabled == ~isScanDetailsVisible /\ ~ModalOpen

Lost == <<"lost">>

\* taps that read: digits, a binary operator, digits, then at most one
\* closing key (equals or a further binary operator)
Tracked(l) ==
  LET a == DigitRun(l)
      r1 == SubSeq(l, Len(a) + 1, Len(l))
  IN  \/ r1 = <<>>
      \/ /\ a # <<>>
         /\ Head(r1) \in BinaryOps
         /\ LET b == DigitRun(Tail(r1))
                r2 == SubSeq(Tail(r1), Len(b) + 1, Len(r1) - 1)
            IN  \/ r2 = <<>>
                \/ b # <<>> /\ Len(r2) = 1 /\ r2[1] \in BinaryOps \cup {"="}

\* a tap taken while the display shows "Error" is recorded as such, and so
\* are a tap on equals taken while no operator is pending and a tap on
\* backspace or on the clear key
Logged(token) ==
  IF displayValue = ErrorStr THEN <<"error", token>>
  ELSE IF token = "=" /\ operator = NoOp THEN <<"idle", token>>
  ELSE IF token \in {"Backspace", "C"} THEN <<"tap", token>>
  ELSE IF log # Lost /\ Tracked(Append(log, token)) THEN Append(log, token)
  ELSE Lost

\* a tap on the keypad button named token, whose handler makes the update u
Tap(u, token) ==
  /\ activeView = "Calculator"
  /\ KeypadEnabled
  /\ inputs < MaxInputs
  /\ Apply(u)
  /\ inputs' = inputs + 1
  /\ log' = Logged(token)
  /\ UNCHANGED <<activeView, scans, nextFile, edits, san, worker>>

\* the explored entries stay within MaxEntryLen digits
EntryFits == DigitCount(displayValue') <= MaxEntryLen \/ displayValue' = displayValue

TapDigit(d) == Tap(inputDigit(cur, d), d) /\ EntryFits
TapDecimal == Tap(inputDecimal(cur), ".")
TapOperator(op) == Tap(performOperation(cur, op), op)
TapUnary(op) == Tap(performUnaryOperation(cur, op), op)
TapConstant(c) == Tap(inputConstant(cur, c), c)
TapEquals == Tap(handleEquals(cur), "=")
TapToggleSign == Tap(toggleSign(cur), "+/-")
TapPercent == Tap(inputPercent(cur), "%")
TapBackspace == Tap(backspace(cur), "Backspace")
TapClear == Tap(clearButton(cur), "C")

\* handleKeyPress below its guard: the handlers it calls are those of the
\* render that created it, so they read the captured state c
keyDispatch(c, key) ==
  CASE IsDigit(key) -> inputDigit(c, key)
    [] key = "." -> inputDecimal(c)
    [] key = "+" -> performOperation(c, "+")
    [] key = "-" -> performOperation(c, "-")
    [] key = "*" -> performOperation(c, "*")
    [] key = "/" -> performOperation(c, "/")
    [] key = "%" -> inputPercent(c)
    [] key = "^" -> performOperation(c, "x^y")
    [] key \in {"Enter", "="} -> handleEquals(c)
    [] key = "Backspace" -> backspace(c)
    [] key \in {"c", "Escape"} -> clearAll
    [] OTHER -> NoUpdate

handleKeyPress(c, key, scannerOpen, detailsVisible, cameraOpen) ==
  IF scannerOpen \/ detailsVisible \/ cameraOpen
    THEN IF key = "Escape"
           THEN Then([isScannerOpen |-> FALSE, isCameraViewOpen |-> FALSE],
                     IF detailsVisible THEN handleDiscardScan ELSE NoUpdate)
         ELSE NoUpdate
  ELSE keyDispatch(c, key)

ModelKeys == ModelDigits \cup {".", "+", "-", "*", "/", "%", "^", "=", "Backspace", "c", "Escape"}

\* a key of the physical keyboard while the calculator takes keys
KeyInput(key) ==
  /\ activeView = "Calculator"
  /\ ~(isScannerOpen \/ isScanDetailsVisible \/ isCameraViewOpen)
  /\ inputs < MaxInputs
  /\ Apply(handleKeyPress(kb, key, isScannerOpen, isScanDetailsVisible, isCameraViewOpen))
  /\ inputs' = inputs + 1
  /\ IsDigit(key) => EntryFits
  /\ log' = Lost
  /\ UNCHANGED <<activeView, scans, nextFile, edits, san, worker>>

\* the record of a discard: how it was asked for and the display it found
Discarded(how) == <<"discard", how>> \o displayValue

\* Escape while the scanner, the camera view or staging is shown
KeyEscape ==
  /\ activeView = "Calculator"
  /\ isScannerOpen \/ isScanDetailsVisible \/ isCameraViewOpen
  /\ Apply(handleKeyPress(kb, "Escape", isScannerOpen, isScanDetailsVisible, isCameraViewOpen))
  /\ log' = IF isScanDetailsVisible THEN Discarded("Escape") ELSE Lost
  /\ UNCHANGED <<activeView, scans, nextFile, inputs, edits, san, worker>>

\* the camera button of the header: setIsScannerOpen(true); setError(null)
openScanner == [isScannerOpen |-> TRUE, error |-> NoError]

OpenScanner ==
  /\ activeView = "Calculator"
  /\ ~ModalOpen
  /\ Apply(openScanner)
  /\ log' = Lost
  /\ UNCHANGED <<activeView, scans, nextFile, inputs, edits, san, worker>>

\* the scanner dialog takes a file: it is open and shows no spinner
ScannerTakesFile == isScannerOpen /\ ~isLoading /\ ~isCameraViewOpen

\* the staging panel with its Discard and Confirm buttons takes input
StagingShown ==
  activeView = "Calculator" /\ isScanDetailsVisible /\ editableResult # None /\ ~ModalOpen

\* a file is chosen in the scanner dialog: handleFileChange calls processImage
SelectFile ==
  /\ activeView = "Calculator"
  /\ ScannerTakesFile
  /\ Apply(processImageStart)
  /\ scans' = scans \cup {[file |-> nextFile, stage |-> "read", live |-> TRUE]}
  /\ nextFile' = nextFile + 1
  /\ log' = Lost
  /\ UNCHANGED <<activeView, inputs, edits, san, worker>>

\* a continuation of processImage: its updates reach the component only
\* while the component that started it is mounted
Continue(scan, u, rest) ==
  /\ scan \in scans
  /\ Apply(IF scan.live THEN u ELSE NoUpdate)
  /\ scans' = (scans \ {scan}) \cup rest
  /\ log' = <<"scan">>
  /\ UNCHANGED <<activeView, nextFile, inputs, edits, san, worker>>

\* readFileAsDataURL resolves: setImageDataUrl(dataUrl), then processReceipt
ReadDone(scan) ==
  /\ scan.stage = "read"
  /\ Continue(scan, [imageDataUrl |-> scan.file], {[scan EXCEPT !.stage = "service"]})

\* readFileAsDataURL rejects
ReadFail(scan) ==
  /\ scan.stage = "read"
  /\ Continue(scan, processImageCatch(ErrRead), {})

\* the responses of the vision service that are modelled
ScanResponses ==
  {RawResult(TRUE, TRUE,
             <<RawItem(TRUE, JSNum(Fin(1005)), JSStr(<<"a">>)),
               RawItem(TRUE, JSStr(<<"$", "1", ".", "5">>), JSStr(<<" ">>))>>,
             JSStr(<<" ", "x">>), JSNum(Fin(50000))),
   RawResult(TRUE, TRUE, <<RawItem(TRUE, JSNum(Fin(1005)), JSUndefined)>>,
             JSStr(<<"F", "o", "o", "d">>), JSUndefined),
   RawResult(TRUE, TRUE, <<RawItem(TRUE, JSNum(Fin(-2000)), JSStr(<<"a">>))>>,
             JSUndefined, JSUndefined),
   RawResult(TRUE, TRUE, <<RawItem(TRUE, JSStr(<<"a">>), JSStr(<<"a">>))>>,
             JSUndefined, JSNum(Fin(50000))),
   RawResult(TRUE, FALSE, <<>>, JSUndefined, JSUndefined),
   RawResult(FALSE, FALSE, <<>>, JSUndefined, JSUndefined)}

\* processReceipt resolves with rawResult
ServiceDone(scan, rawResult) ==
  /\ scan.stage = "service"
  /\ \E sanitizedResult \in {validateAndSanitizeScanResult(rawResult)} :
       Continue(scan, processImageStage(sanitizedResult), {})

\* processReceipt rejects
ServiceFail(scan, message) ==
  /\ scan.stage = "service"
  /\ Continue(scan, processImageCatch(message), {})

\* the texts typed into the staging fields
EditDescriptions == {<<"b">>}
EditAmounts == {<<"2", ".", "5">>, <<"x">>}
EditCategories == {<<" ", "N", "e", "w", " ">>, <<>>}

\* an edit of the staging panel whose handler makes the update u
Edit(u) ==
  /\ StagingShown
  /\ Apply(u)
  /\ edits' = edits + 1
  /\ log' = Lost
  /\ UNCHANGED <<activeView, scans, nextFile, inputs, san, worker>>

ItemChange(index, field, value) ==
  /\ editableResult # None
  /\ index \in 1..Len(editableResult[1].items)
  /\ Edit(handleItemChange(editableResult, index, field, value))

AddItem ==
  /\ editableResult # None
  /\ Len(editableResult[1].items) < MaxItems
  /\ Edit(handleAddItem(editableResult))

RemoveItem(index) ==
  /\ editableResult # None
  /\ index \in 1..Len(editableResult[1].items)
  /\ Edit(handleRemoveItem(editableResult, index))

CategoryChange(value) == Edit(handleCategoryChange(editableResult, value))

CategoryBlur == Edit(handleCategoryInputBlur(editableResult, customCategories))

\* the Confirm Total button
ConfirmScan ==
  /\ StagingShown
  /\ Apply(handleConfirmScan(editableResult, customCategories, imageDataUrl))
  /\ log' = <<"confirm">>
  /\ UNCHANGED <<activeView, scans, nextFile, inputs, edits, san, worker>>

\* the Discard button
DiscardScan ==
  /\ StagingShown
  /\ Apply(handleDiscardScan)
  /\ log' = Discarded("Discard")
  /\ UNCHANGED <<activeView, scans, nextFile, inputs, edits, san, worker>>

\* the history button of the header: App stops rendering Calculator, whose
\* state is lost; a Calculator rendered later starts from useState's values
GoToHistory ==
  /\ activeView = "Calculator"
  /\ ~ModalOpen
  /\ activeView' = "History"
  /\ displayValue' = ZeroStr
  /\ previousValue' = null
  /\ operator' = NoOp
  /\ waitingForOperand' = TRUE
  /\ calculationString' = <<>>
  /\ isLoading' = FALSE
  /\ error' = NoError
  /\ isScannerOpen' = FALSE
  /\ isCameraViewOpen' = FALSE
  /\ scanResult' = None
  /\ editableResult' = None
  /\ isScanDetailsVisible' = FALSE
  /\ imageDataUrl' = NoImage
  /\ kb' = InitialClosure
  /\ scans' = {[scan EXCEPT !.live = FALSE] : scan \in scans}
  /\ log' = Lost
  /\ UNCHANGED <<history, customCategories, nextId, nextFile, inputs, edits, san, worker, camera>>

\* the back button of the history view
GoToCalculator ==
  /\ activeView = "History"
  /\ activeView' = "Calculator"
  /\ log' = Lost
  /\ UNCHANGED <<calcVars, scanVars, history, customCategories, kb, scans, nextId, nextFile,
                 inputs, edits, san, worker, camera>>

\* ---------------------------------------------------------- camera capture
\* the scanner dialog's camera button: Calculator renders CameraCapture
\* while isCameraViewOpen is true
OpenCamera ==
  /\ activeView = "Calculator"
  /\ ScannerTakesFile
  /\ Apply([isCameraViewOpen |-> TRUE])
  /\ log' = Lost
  /\ UNCHANGED <<activeView, scans, nextFile, inputs, edits, san, worker>>

\* getUserMedia resolves with a stream, whose tracks are live: the state
\* stream is set only if the effect has not been cleaned up
GetUserMediaResolve(request) ==
  /\ request \in camera.requests
  /\ camera' = [camera EXCEPT !.requests = camera.requests \ {request},
                              !.live = camera.live \cup {request.mount},
                              !.stream = IF request.isMounted THEN request.mount
                                         ELSE camera.stream]
  /\ log' = Lost
  /\ UNCHANGED <<calcVars, scanVars, appVars, kb, scans, nextId, nextFile, inputs, edits,
                 san, worker>>

\* getUserMedia rejects: the error is shown if the component is still there
GetUserMediaReject(request) ==
  /\ request \in camera.requests
  /\ camera' = [camera EXCEPT !.requests = camera.requests \ {request},
                              !.error = IF request.isMounted THEN TRUE ELSE camera.error]
  /\ log' = Lost
  /\ UNCHANGED <<calcVars, scanVars, appVars, kb, scans, nextId, nextFile, inputs, edits,
                 san, worker>>

\* handleClose: stopStream(), then onClose(), on which Calculator stops
\* rendering CameraCapture
CloseCamera ==
  /\ activeView = "Calculator"
  /\ isCameraViewOpen
  /\ Apply([isCameraViewOpen |-> FALSE,
            camera |-> stopStream(camera, camera.stream, TRUE)])
  /\ log' = Lost
  /\ UNCHANGED <<activeView, scans, nextFile, inputs, edits, san, worker>>

\* handleCapture: the frame is drawn and canvas.toBlob is given its callback
Capture ==
  /\ activeView = "Calculator"
  /\ isCameraViewOpen
  /\ ~camera.error
  /\ camera.stream # NoStream
  /\ camera' = [camera EXCEPT !.blobs = camera.blobs
                                \cup {[mount |-> camera.opened, stream |-> camera.stream]}]
  /\ log' = Lost
  /\ UNCHANGED <<calcVars, scanVars, appVars, kb, scans, nextId, nextFile, inputs, edits,
                 san, worker>>

\* the callback of toBlob with the picture: stopStream() of the render that
\* called handleCapture, then onCapture(file), on which Calculator stops
\* rendering CameraCapture and hands the file to processImage
BlobReady(blob) ==
  /\ activeView = "Calculator"
  /\ blob \in camera.blobs
  /\ Apply(Then([isCameraViewOpen |-> FALSE,
                 camera |-> [stopStream(camera, blob.stream,
                                        isCameraViewOpen /\ camera.opened = blob.mount)
                               EXCEPT !.blobs = camera.blobs \ {blob}]],
                processImageStart))
  /\ scans' = scans \cup {[file |-> nextFile, stage |-> "read", live |-> TRUE]}
  /\ nextFile' = nextFile + 1
  /\ log' = Lost
  /\ UNCHANGED <<activeView, inputs, edits, san, worker>>

\* the callback of toBlob without a picture
BlobNull(blob) ==
  /\ blob \in camera.blobs
  /\ camera' = [camera EXCEPT !.blobs = camera.blobs \ {blob}]
  /\ log' = Lost
  /\ UNCHANGED <<calcVars, scanVars, appVars, kb, scans, nextId, nextFile, inputs, edits,
                 san, worker>>

\* ------------------------------------------------------------- the ledger
\* what the callers of addHistoryItem pass to it: handleEquals,
\* handleConfirmScan and handleAddExpense
LedgerItems ==
  {[type |-> "manual", total |-> Fin(2 * Scale),
    calculation |-> <<"1", " ", "+", " ", "1">>],
   [type |-> "scan", total |-> Fin(Scale), category |-> <<"N">>,
    imageDataUrl |-> NoImage, calculation |-> <<"1">>],
   [type |-> "expense", total |-> Fin(Scale), description |-> Undefined,
    category |-> <<"N">>]}

\* the ledger that n <= HistoryCap calls of addHistoryItem leave behind, the
\* last of them with the id last
Ledger(n, last) ==
  [i \in 1..n |->
     HistoryItem([type |-> "manual", total |-> Fin(Scale), calculation |-> <<"1">>],
                 last - i + 1)]

\* a ledger that earlier sessions have filled with up to HistoryCap entries
InitLedger ==
  /\ Mount
  /\ \E n \in 0..HistoryCap : history = Ledger(n, 0)
  /\ customCategories = DefaultCategories
  /\ activeView = "Calculator"
  /\ scans = {}
  /\ nextId = 1
  /\ nextFile = 1
  /\ inputs = 0
  /\ edits = 0
  /\ log = <<>>
  /\ camera = NoCamera
  /\ san = NoProbe
  /\ worker = NoWorker

\* one call of App's addHistoryItem
AddHistoryItem(item) ==
  /\ Apply([addHistory |-> item])
  /\ log' = Lost
  /\ UNCHANGED <<activeView, scans, nextFile, inputs, edits, san, worker>>

\* ---------------------------------------------------- history view, expenses
\* the texts typed into the category forms
CategoryInputs == {<<"h", "o", "m", "e">>, <<" ", "Z", "o", "o", " ">>, <<>>}

\* the entries of the category list whose rename and delete buttons are used
CategoryTargets ==
  {<<"H", "o", "m", "e">>, <<"h", "o", "m", "e">>, <<"Z", "o", "o">>}

Listed(name) == \E i \in 1..Len(customCategories) : customCategories[i] = name

\* submitting the add-category form of the history view
AddCategory(newCategoryInput) ==
  /\ activeView = "History"
  /\ customCategories' = handleAddCategory(customCategories, newCategoryInput)
  /\ log' = Lost
  /\ UNCHANGED <<calcVars, scanVars, history, activeView, kb, scans, nextId, nextFile,
                 inputs, edits, san, worker, camera>>

\* submitting the rename form of the listed category oldName
RenameCategory(oldName, newCategoryName) ==
  /\ activeView = "History"
  /\ Listed(oldName)
  /\ \E renamed \in {handleRenameCategory(customCategories, history, oldName,
                                          newCategoryName)} :
       /\ customCategories' = renamed.customCategories
       /\ history' = renamed.history
  /\ log' = <<"rename", oldName, newCategoryName>>
  /\ UNCHANGED <<calcVars, scanVars, activeView, kb, scans, nextId, nextFile,
                 inputs, edits, san, worker, camera>>

\* the delete button of the listed category categoryToDelete, confirmed
DeleteCategory(categoryToDelete) ==
  /\ activeView = "History"
  /\ Listed(categoryToDelete)
  /\ customCategories' = handleDeleteCategory(customCategories, categoryToDelete)
  /\ log' = <<"delete", categoryToDelete>>
  /\ UNCHANGED <<calcVars, scanVars, history, activeView, kb, scans, nextId, nextFile,
                 inputs, edits, san, worker, camera>>

\* History.clearHistory, confirmed
ClearHistory ==
  /\ activeView = "History"
  /\ history' = <<>>
  /\ log' = Lost
  /\ UNCHANGED <<calcVars, scanVars, customCategories, activeView, kb, scans, nextId,
                 nextFile, inputs, edits, san, worker, camera>>

\* the texts typed into the expense form
ExpenseAmounts == {<<"1", ".", "5">>, <<"0">>}
ExpenseDescriptions == {<<>>}
ExpenseCategories == {<<" ", "Z", "o", "o", " ">>, <<" ">>}

\* submitting the expense form
AddExpense(expenseAmount, expenseDescription, expenseCategory) ==
  /\ activeView = "Calculator"
  /\ ~ModalOpen
  /\ Apply(handleAddExpense(customCategories, expenseAmount, expenseDescription,
                            expenseCategory))
  /\ log' = Lost
  /\ UNCHANGED <<activeView, scans, nextFile, inputs, edits, san, worker>>

CategoryOp ==
  \/ \E newCategoryInput \in CategoryInputs : AddCategory(newCategoryInput)
  \/ \E oldName \in CategoryTargets, newCategoryName \in CategoryInputs :
       RenameCategory(oldName, newCategoryName)
  \/ \E categoryToDelete \in CategoryTargets : DeleteCategory(categoryToDelete)

AnyExpense ==
  \E expenseAmount \in ExpenseAmounts, expenseDescription \in ExpenseDescriptions,
     expenseCategory \in ExpenseCategories :
    AddExpense(expenseAmount, expenseDescription, expenseCategory)

\* ------------------------------------------------------------ CSV export
\* what the ledger's writers have passed to addHistoryItem: calculations of
\* the keypad, expenses with typed descriptions and categories, scans with
\* categories of the service's response
ExportItems ==
  {[type |-> "manual", total |-> Fin(2 * Scale), calculation |-> <<"1", " ", "+", " ", "1">>],
   [type |-> "expense", total |-> Fin(1500), description |-> <<"a", ",", "b">>, category |-> <<"Z", "o", "o">>],
   [type |-> "expense", total |-> Fin(Scale), description |-> <<"\"">>, category |-> <<"s", "a", "y", " ", "\"", "x", "\"">>],
   [type |-> "expense", total |-> Fin(Scale), description |-> Undefined, category |-> <<"a", ",", " ", "\"", "b", "\"">>],
   [type |-> "scan", total |-> Fin(1010), category |-> <<"a", "\n", "b">>, imageDataUrl |-> NoImage, calculation |-> <<"1", ".", "0", "1">>],
   [type |-> "scan", total |-> Fin(Scale), category |-> <<"\"", ",", "\r", "\n", "\"">>, imageDataUrl |-> NoImage, calculation |-> <<"0", ".", "5", " ", "+", " ", "0", ".", "5">>],
   [type |-> "scan", total |-> Fin(Scale), category |-> <<>>, imageDataUrl |-> NoImage, calculation |-> <<"1">>],
   [type |-> "expense", total |-> Fin(Scale), description |-> <<"x", "\n", "y">>, category |-> <<",">>]}

\* ledgers of up to MaxExportEntries entries
ExportLedgers ==
  UNION {{[i \in 1..n |-> HistoryItem(f[i], n - i + 1)] : f \in [1..n -> ExportItems]} :
         n \in 0..MaxExportEntries}

\* the history view over a ledger left by earlier sessions
InitExport ==
  /\ Mount
  /\ history \in ExportLedgers
  /\ customCategories = DefaultCategories
  /\ activeView = "History"
  /\ scans = {}
  /\ nextId = Len(history) + 1
  /\ nextFile = 1
  /\ inputs = 0
  /\ edits = 0
  /\ log = <<>>
  /\ camera = NoCamera
  /\ san = NoProbe
  /\ worker = NoWorker

\* the export button of the history view
ExportToCSV ==
  /\ activeView = "History"
  /\ Len(history) # 0
  /\ san' = [stage |-> "csv", ledger |-> history, csv |-> exportToCSV(history)]
  /\ log' = Lost
  /\ UNCHANGED <<calcVars, scanVars, appVars, kb, scans, nextId, nextFile, inputs, edits, camera,
                 worker>>

\* ---------------------------------------------------------- specifications
\* a tap on any key of the keypad
AnyTap ==
  \/ \E d \in ModelDigits : TapDigit(d)
  \/ TapDecimal
  \/ \E op \in BinaryOps : TapOperator(op)
  \/ \E op \in UnaryOps : TapUnary(op)
  \/ \E c \in {"pi", "e"} : TapConstant(c)
  \/ TapEquals
  \/ TapToggleSign
  \/ TapPercent
  \/ TapBackspace
  \/ TapClear

AnyKey == \E key \in ModelKeys : KeyInput(key)

\* the arithmetic engine driven by taps and keys
CalcNext == AnyTap \/ AnyKey

SpecCalc == Init /\ [][CalcNext]_vars

\* the arithmetic engine driven by the on-screen keys alone
TapsNext == AnyTap

SpecTaps == Init /\ [][TapsNext]_vars

\* short runs of taps
ShortTapsNext == inputs < MaxShortInputs /\ AnyTap

SpecShortTaps == Init /\ [][ShortTapsNext]_vars

\* short runs of taps and keys in which the scanner dialog is opened and
\* closed, so that handleKeyPress is created anew in any calculator state
KeysNext ==
  \/ inputs < MaxShortInputs /\ AnyTap
  \/ inputs < MaxShortInputs /\ AnyKey
  \/ OpenScanner
  \/ KeyEscape

SpecKeys == Init /\ [][KeysNext]_vars

ScanStep ==
  \E scan \in scans :
    \/ ReadDone(scan)
    \/ ReadFail(scan)
    \/ \E rawResult \in ScanResponses : ServiceDone(scan, rawResult)
    \/ \E message \in {ErrSyntax, ErrService} : ServiceFail(scan, message)

StagingEdit ==
  \/ \E index \in 1..MaxItems, value \in EditDescriptions : ItemChange(index, "description", value)
  \/ \E index \in 1..MaxItems, value \in EditAmounts : ItemChange(index, "amount", value)
  \/ AddItem
  \/ \E index \in 1..MaxItems : RemoveItem(index)
  \/ \E value \in EditCategories : CategoryChange(value)
  \/ CategoryBlur

\* the keys tapped before and between scans
ScanTap ==
  \/ TapDigit("1")
  \/ TapOperator("+")

\* the scan workflow of one mounted Calculator, with at most MaxScanTaps taps
ScanNext ==
  \/ inputs < MaxScanTaps /\ ScanTap
  \/ OpenScanner
  \/ KeyEscape
  \/ nextFile <= MaxScans /\ SelectFile
  \/ ScanStep
  \/ edits < MaxEdits /\ StagingEdit
  \/ ConfirmScan
  \/ DiscardScan

SpecScan == Init /\ [][ScanNext]_vars

\* the receipts that are staged: one of two items and one of a single item
StagingResponses ==
  {RawResult(TRUE, TRUE,
             <<RawItem(TRUE, JSNum(Fin(1005)), JSStr(<<"a">>)),
               RawItem(TRUE, JSStr(<<"$", "1", ".", "5">>), JSStr(<<" ">>))>>,
             JSStr(<<" ", "x">>), JSNum(Fin(50000))),
   RawResult(TRUE, TRUE, <<RawItem(TRUE, JSNum(Fin(1005)), JSUndefined)>>,
             JSStr(<<"F", "o", "o", "d">>), JSUndefined)}

StagingScanStep ==
  \E scan \in scans :
    \/ ReadDone(scan)
    \/ \E rawResult \in StagingResponses : ServiceDone(scan, rawResult)

\* keys tapped before the scanner is opened, one scan that succeeds, runs of
\* edits of the staged result, and its confirmation
StagingNext ==
  \/ nextFile = 1 /\ inputs < MaxScanTaps /\ ScanTap
  \/ nextFile = 1 /\ OpenScanner
  \/ nextFile = 1 /\ SelectFile
  \/ StagingScanStep
  \/ edits < MaxStagingEdits /\ StagingEdit
  \/ ConfirmScan

SpecStaging == Init /\ [][StagingNext]_vars

\* the receipt on the file chosen as number file: one item whose amount is
\* the number of the file
Receipt(file) ==
  RawResult(TRUE, TRUE, <<RawItem(TRUE, JSNum(Fin(file * Scale)), JSStr(<<"a">>))>>,
            JSStr(<<"F", "o", "o", "d">>), JSUndefined)

ImageScanStep ==
  \E scan \in scans :
    \/ ReadDone(scan)
    \/ ReadFail(scan)
    \/ ServiceDone(scan, Receipt(scan.file))
    \/ ServiceFail(scan, ErrService)

\* scans of different receipts, one after the other, by one mounted
\* Calculator: keys are tapped, the scanner is opened and closed, files are
\* chosen, staged results are confirmed or discarded
ImagesNext ==
  \/ inputs < MaxScanTaps /\ ScanTap
  \/ OpenScanner
  \/ KeyEscape
  \/ nextFile <= MaxMountScans /\ SelectFile
  \/ ImageScanStep
  \/ ConfirmScan
  \/ DiscardScan

SpecImages == Init /\ [][ImagesNext]_vars

\* scans while the user moves between the calculator and the history view
MountNext ==
  \/ OpenScanner
  \/ KeyEscape
  \/ nextFile <= MaxMountScans /\ SelectFile
  \/ ScanStep
  \/ GoToHistory
  \/ GoToCalculator

SpecMount == Init /\ [][MountNext]_vars

\* the same runs, in which every read and every service call that has been
\* started completes or fails
SpecMountFair == SpecMount /\ WF_vars(ScanStep)

\* insertions into a ledger of any length up to the cap
LedgerNext == \E item \in LedgerItems : AddHistoryItem(item)

SpecLedger == InitLedger /\ [][LedgerNext]_vars

\* a receipt whose category differs from a default category in case only
CategoryResponses ==
  {RawResult(TRUE, TRUE, <<RawItem(TRUE, JSNum(Fin(1005)), JSStr(<<"a">>))>>,
             JSStr(<<"h", "o", "m", "e">>), JSUndefined)}

CategoryScanStep ==
  \E scan \in scans :
    \/ ReadDone(scan)
    \/ \E rawResult \in CategoryResponses : ServiceDone(scan, rawResult)

\* category management in the history view, together with what adds
\* categories from the calculator: expenses, the category field of the
\* staging panel and the confirmation of a scan
CategoriesNext ==
  \/ scans = {} /\ GoToHistory
  \/ GoToCalculator
  \/ CategoryOp
  \/ ClearHistory
  \/ AnyExpense
  \/ OpenScanner
  \/ nextFile <= MaxScans /\ SelectFile
  \/ CategoryScanStep
  \/ edits < MaxEdits /\ \E value \in CategoryInputs : CategoryChange(value)
  \/ edits < MaxEdits /\ CategoryBlur
  \/ ConfirmScan

SpecCategories == Init /\ [][CategoriesNext]_vars

\* the export of ledgers of every content, and of what is left of them
\* when the history is cleared
ExportNext ==
  \/ ExportToCSV
  \/ ClearHistory

SpecExport == InitExport /\ [][ExportNext]_vars

\* the camera view opened from the scanner dialog and left by its Close
\* button, by a capture or by the Escape key
CameraNext ==
  \/ OpenScanner
  \/ camera.opened < MaxCameraOpens /\ OpenCamera
  \/ \E request \in camera.requests : GetUserMediaResolve(request)
  \/ \E request \in camera.requests : GetUserMediaReject(request)
  \/ CloseCamera
  \/ Capture
  \/ nextFile <= MaxScans /\ \E blob \in camera.blobs : BlobReady(blob)
  \/ \E blob \in camera.blobs : BlobNull(blob)
  \/ KeyEscape

SpecCamera == Init /\ [][CameraNext]_vars

\* the entry after n taps of the digit 7 on a fresh calculator
Sevens(n) == [i \in 1..n |-> "7"]

InitDigits ==
  /\ \E n \in 0..MaxDisplayLen :
       /\ displayValue = IF n = 0 THEN ZeroStr ELSE Sevens(n)
       /\ waitingForOperand = (n = 0)
       /\ log = Sevens(n)
  /\ previousValue = null
  /\ operator = NoOp
  /\ calculationString = <<>>
  /\ isLoading = FALSE
  /\ error = NoError
  /\ isScannerOpen = FALSE
  /\ isCameraViewOpen = FALSE
  /\ scanResult = None
  /\ editableResult = None
  /\ isScanDetailsVisible = FALSE
  /\ imageDataUrl = NoImage
  /\ kb = InitialClosure
  /\ history = <<>>
  /\ customCategories = DefaultCategories
  /\ activeView = "Calculator"
  /\ scans = {}
  /\ nextId = 1
  /\ nextFile = 1
  /\ inputs = 0
  /\ edits = 0
  /\ camera = NoCamera
  /\ san = NoProbe
  /\ worker = NoWorker

\* a digit key tapped on an entry of any length
DigitInput(d) == Tap(inputDigit(cur, d), d)

\* digit keys only, on entries of up to MaxDisplayLen digits
DigitsNext == \E d \in ModelDigits : DigitInput(d)

SpecDigits == InitDigits /\ [][DigitsNext]_vars

\* ------------------------------------------------- sanitization on its own
\* the amounts, descriptions, categories and totals of the modelled responses
RawAmounts ==
  {JSNum(Fin(1005)), JSNum(Fin(-2000)), JSNum(PosInf), JSStr(<<"$", "1", ".", "5">>),
   JSStr(<<"a">>), JSUndefined}
RawDescriptions == {JSStr(<<"a">>), JSStr(<<" ">>), JSUndefined, JSNum(Fin(0))}
RawCategories ==
  {JSStr(<<"F", "o", "o", "d">>), JSStr(<<" ">>), JSStr(<<" ", "x">>), JSUndefined, JSBool(FALSE)}
RawTotals == {JSUndefined, JSNum(Fin(50000))}
RawItems ==
  {RawItem(TRUE, a, JSStr(<<"a">>)) : a \in RawAmounts}
    \cup {RawItem(TRUE, JSNum(Fin(1005)), d) : d \in RawDescriptions}
    \cup {RawItem(FALSE, JSUndefined, JSUndefined)}
RawItemLists == UNION {[1..n -> RawItems] : n \in 0..MaxRawItems}
RawResults ==
  {RawResult(TRUE, TRUE, items, c, t) : items \in RawItemLists, c \in RawCategories, t \in RawTotals}
    \cup {RawResult(TRUE, FALSE, <<>>, c, JSUndefined) : c \in RawCategories}
    \cup {RawResult(FALSE, FALSE, <<>>, JSUndefined, JSUndefined)}

InitSanitize ==
  /\ Fresh
  /\ worker = NoWorker
  /\ \E raw \in RawResults : san = [stage |-> "raw", raw |-> raw]

\* validateAndSanitizeScanResult(raw) returns
Sanitize ==
  /\ san.stage = "raw"
  /\ validateAndSanitizeScanResult(san.raw).ok
  /\ san' = [stage |-> "once", raw |-> san.raw,
             once |-> validateAndSanitizeScanResult(san.raw)]
  /\ UNCHANGED <<calcVars, scanVars, appVars, kb, scans, auxVars, worker>>

\* validateAndSanitizeScanResult(raw) throws
SanitizeThrows ==
  /\ san.stage = "raw"
  /\ ~validateAndSanitizeScanResult(san.raw).ok
  /\ san' = [stage |-> "thrown", raw |-> san.raw]
  /\ UNCHANGED <<calcVars, scanVars, appVars, kb, scans, auxVars, worker>>

\* the result is sanitized again
Resanitize ==
  /\ san.stage = "once"
  /\ san' = [stage |-> "twice", raw |-> san.raw, once |-> san.once,
             twice |-> validateAndSanitizeScanResult(AsRaw(san.once))]
  /\ UNCHANGED <<calcVars, scanVars, appVars, kb, scans, auxVars, worker>>

SanitizeNext == Sanitize \/ SanitizeThrows \/ Resanitize

SpecSanitize == InitSanitize /\ [][SanitizeNext]_vars

\* ---------------------------------------------------------- service worker
\* Number of requests the pages make in an explored run of the service
\* worker.
MaxFetches == 3

CACHE_NAME == "ai-calculator-cache-v1"

\* a cache left by an earlier version of the worker
OldCacheName == "ai-calculator-cache-v0"

\* URLs are sequences of their parts, so that String.prototype.includes is
\* computed as a search for a run of parts
GoogleApis == <<"googleapis", ".", "com">>

\* url.includes(part)
includes(url, part) ==
  \E i \in 1..(Len(url) - Len(part) + 1) : SubSeq(url, i, i + Len(part) - 1) = part

\* the app shell that the install handler puts into the cache
ShellUrls ==
  {<<"/">>, <<"/", "index", ".", "html">>, <<"/", "manifest", ".", "json">>,
   <<"/", "vite", ".", "svg">>}

\* the URLs requested in the explored runs: a page of the shell, an asset
\* that is not part of the shell, a URL of the app that names the AI host
\* in its query, and the AI service
FetchUrls ==
  {<<"/">>,
   <<"/", "assets", "/", "app", ".", "js">>,
   <<"/", "?", "ref", "=", "googleapis", ".", "com">>,
   <<"generativelanguage", ".", "googleapis", ".", "com", "/", "v1beta">>}

FetchMethods == {"GET", "POST"}

\* what the network returns for a request: a status and a body
Response(status, body) == [status |-> status, body |-> body]
NetworkResponses == {Response(200, "a"), Response(200, "b"), Response(404, "a")}

Request(method, url) == [method |-> method, url |-> url]

\* a worker that has been registered and has run none of its handlers
InstallingWorker ==
  [stage |-> "installing",
   cacheNames |-> {OldCacheName},
   cache |-> {},
   taken |-> {},
   puts |-> {},
   fetches |-> 0,
   last |-> [source |-> "none"]]

\* install: caches.open(CACHE_NAME).then(cache => cache.addAll([...]))
\* stores the response fetched for each URL of the shell
installed(sw) ==
  [sw EXCEPT !.stage = "installed",
             !.cacheNames = @ \cup {CACHE_NAME},
             !.cache = {[request |-> Request("GET", url), response |-> Response(200, "a")] :
                          url \in ShellUrls}]

\* activate: every cache with another name is deleted
activated(sw) ==
  [sw EXCEPT !.stage = "activated",
             !.cacheNames = {name \in @ : name = CACHE_NAME}]

\* the answer a page gets: from the worker's fetch ("network"), from the
\* cache ("cache"), none because both failed ("error"), or the browser's own
\* handling of a request the worker did not take over ("browser")
Answer(request, source, network, response) ==
  [request |-> request, source |-> source, network |-> network, response |-> response]

NoResponse == Response(0, "")

\* the fetch listener without the check for the AI service host
onFetchTakesAll(sw, request) ==
  IF request.method # "GET"
    THEN [sw EXCEPT !.last = Answer(request, "browser", NoResponse, NoResponse)]
  ELSE [sw EXCEPT !.taken = @ \cup {request}]

\* the fetch listener up to event.respondWith: a request that is not a GET
\* or that names the AI service host is left to the browser, every other
\* request is taken over
onFetch(sw, request) ==
  IF request.method # "GET"
    THEN [sw EXCEPT !.last = Answer(request, "browser", NoResponse, NoResponse)]
  ELSE IF includes(request.url, GoogleApis)
    THEN [sw EXCEPT !.last = Answer(request, "browser", NoResponse, NoResponse)]
  ELSE [sw EXCEPT !.taken = @ \cup {request}]

\* fetch(event.request) resolves: the response is returned, and a copy is
\* put into the cache when its status is 200
onResponse(sw, request, response) ==
  [sw EXCEPT !.taken = @ \ {request},
             !.puts = IF response.status = 200
                        THEN @ \cup {[request |-> request, response |-> response]}
                        ELSE @,
             !.last = Answer(request, "network", response, response)]

\* caches.match(request)
match(sw, request) == {entry \in sw.cache : entry.request = request}

\* fetch(event.request) rejects: the cached response is served if there is
\* one
onNetworkError(sw, request) ==
  [sw EXCEPT !.taken = @ \ {request},
             !.last = IF match(sw, request) # {}
                        THEN Answer(request, "cache", NoResponse,
                                    (CHOOSE entry \in match(sw, request) : TRUE).response)
                        ELSE Answer(request, "error", NoResponse, NoResponse)]

\* cache.put(request, response) replaces the entry of the request
put(sw, entry) ==
  [sw EXCEPT !.puts = @ \ {entry},
             !.cache = {e \in @ : e.request # entry.request} \cup {entry}]

InitWorker == Fresh /\ san = NoProbe /\ worker = InstallingWorker

WorkerStep(next) ==
  /\ worker' = next
  /\ UNCHANGED <<calcVars, scanVars, appVars, kb, scans, auxVars, san>>

Install == worker.stage = "installing" /\ WorkerStep(installed(worker))

Activate == worker.stage = "installed" /\ WorkerStep(activated(worker))

\* a page controlled by the worker makes a request
FetchEvent(request) ==
  /\ worker.stage = "activated"
  /\ worker.fetches < MaxFetches
  /\ request \notin worker.taken
  /\ WorkerStep([onFetch(worker, request) EXCEPT !.fetches = @ + 1])

NetworkResponds(request, response) ==
  /\ request \in worker.taken
  /\ WorkerStep(onResponse(worker, request, response))

NetworkFails(request) ==
  /\ request \in worker.taken
  /\ WorkerStep(onNetworkError(worker, request))

CachePut(entry) ==
  /\ entry \in worker.puts
  /\ WorkerStep(put(worker, entry))

WorkerNext ==
  \/ Install
  \/ Activate
  \/ \E method \in FetchMethods, url \in FetchUrls : FetchEvent(Request(method, url))
  \/ \E request \in worker.taken, response \in NetworkResponses :
       NetworkResponds(request, response)
  \/ \E request \in worker.taken : NetworkFails(request)
  \/ \E entry \in worker.puts : CachePut(entry)

SpecWorker == InitWorker /\ [][WorkerNext]_vars

\* ------------------------------------------------------------------ claims
\* the parts of the logged taps: first entry, operator, second entry, closing key
LogA == DigitRun(log)
LogOp == IF log # Lost /\ Len(log) > Len(LogA) THEN log[Len(LogA) + 1] ELSE NoOp
LogB == DigitRun(SubSeq(log, Len(LogA) + 2, Len(log)))
LogEnd == IF log # Lost /\ LogB # <<>> /\ Len(log) > Len(LogA) + 1 + Len(LogB)
            THEN log[Len(log)] ELSE "none"
\* the number a typed digit string denotes
EntryValue(digits) == parseFloat(digits)

\* C1: from the identity state, tapping the digits of a, a binary operator op,
\* the digits of b and then equals, with calculate(a, op, b) finite, leaves the
\* display equal to that result, no left operand and no pending operator,
\* AwaitingOperand, and exactly one history entry, of type manual, whose total
\* is the result and whose calculation is "<a> <op> <b>".
C1_EqualsAfterEntry ==
  (log # Lost /\ LogEnd = "=") =>
    LET a == EntryValue(LogA)
        b == EntryValue(LogB)
        result == calculate(a, b, LogOp)
    IN  isFinite(result) =>
          /\ displayValue = Str(result)
          /\ previousValue = null
          /\ operator = NoOp
          /\ waitingForOperand
          /\ Len(history) = 1
          /\ history[1].type = "manual"
          /\ history[1].total = result
          /\ history[1].calculation = Str(a) \o <<" ">> \o OpStr(LogOp) \o <<" ">> \o Str(b)

\* a finite result of a subtraction that depends on the operand order was
\* computed by equals and logged
C1_Witness ==
  /\ log # Lost
  /\ LogEnd = "="
  /\ LogOp = "-"
  /\ EntryValue(LogA) # EntryValue(LogB)
  /\ Len(history) = 1
  /\ displayValue = Str(Sub(EntryValue(LogA), EntryValue(LogB)))

\* C2: whenever a division of a finite left operand by zero is resolved, by
\* equals or by a further binary operator, the display becomes "Error" and
\* the history is unchanged.
C2_DivisionByZero ==
  [][(/\ operator = "/"
      /\ isFinite(previousValue)
      /\ parseFloat(displayValue) = Fin(0)
      /\ TapEquals \/ \E op \in BinaryOps : TapOperator(op))
      => (displayValue' = ErrorStr /\ history' = history)]_vars

\* a division of a typed operand by a typed zero was resolved by a further
\* binary operator and ended in ErrorState
C2_Witness ==
  /\ log # Lost
  /\ LogOp = "/"
  /\ EntryValue(LogB) = Fin(0)
  /\ LogEnd \in BinaryOps
  /\ displayValue = ErrorStr
  /\ history = <<>>

\* the taps and keys that are neither a digit nor a clear
ErrorNoOpInput ==
  \/ TapDecimal
  \/ \E op \in BinaryOps : TapOperator(op)
  \/ TapEquals
  \/ \E op \in UnaryOps : TapUnary(op)
  \/ \E c \in {"pi", "e"} : TapConstant(c)
  \/ TapToggleSign
  \/ TapPercent
  \/ TapBackspace
  \/ \E key \in {".", "+", "-", "*", "/", "%", "^", "=", "Backspace"} : KeyInput(key)

TwoDecimals(x) == x.k = "fin" => x.v % (Scale \div 100) = 0

\* C4: for every raw object that sanitize accepts, every returned amount has
\* two decimals, the returned total is the sum of the returned amounts
\* rounded to two decimals, and the result is the same whatever total field
\* the raw object carries.
C4_TotalRecomputed ==
  san.stage \in {"once", "twice"} =>
    /\ \A i \in 1..Len(san.once.items) : TwoDecimals(san.once.items[i].amount)
    /\ TwoDecimals(san.once.total)
    /\ san.once.total = sumAmounts(san.once.items)
    /\ \A t \in RawTotals :
         LET other == validateAndSanitizeScanResult([san.raw EXCEPT !.total = t])
         IN  other.items = san.once.items /\ other.total = san.once.total

\* a response carrying a total that is not the sum of its items was
\* sanitized: two items were kept, one of them rounded
C4_Witness ==
  /\ san.stage = "once"
  /\ san.raw.total = JSNum(Fin(50000))
  /\ Len(san.once.items) = 2
  /\ san.once.items[1].amount = Fin(1010)
  /\ san.once.items[2].amount = Fin(1500)
  /\ san.once.total = Fin(2510)

\* C6: sanitizing the result of sanitize again gives the same items, total
\* and category.
C6_Idempotent ==
  san.stage = "twice" =>
    /\ san.twice.ok
    /\ san.twice.items = san.once.items
    /\ san.twice.total = san.once.total
    /\ san.twice.category = san.once.category

\* a response that sanitize accepts with no item or with a total <= 0
NoValidData(rawResult) ==
  LET r == validateAndSanitizeScanResult(rawResult)
  IN  r.ok /\ (Len(r.items) = 0 \/ LeqZero(r.total))

\* C5: a scan whose sanitized item list is empty or whose total is <= 0 sets
\* the error message, enters no staging and writes no history entry; and
\* whenever a scan result is staged it has an item and a positive total.
C5_NoValidData ==
  [][/\ \A scan \in scans, rawResult \in ScanResponses :
          (log' = <<"scan">> /\ scan.live /\ NoValidData(rawResult)
             /\ ServiceDone(scan, rawResult))
            => /\ error' = ErrNoData
               /\ UNCHANGED <<scanResult, editableResult, isScanDetailsVisible, history>>
     /\ (scanResult' # scanResult /\ scanResult' # None)
          => /\ Len(scanResult'[1].items) > 0
             /\ ~LeqZero(scanResult'[1].total)
             /\ isScanDetailsVisible']_vars

\* a scan found no valid data: the message is shown and nothing is staged
C5_Witness ==
  /\ error = ErrNoData
  /\ ~isScanDetailsVisible
  /\ scanResult = None
  /\ editableResult = None
  /\ history = <<>>
  /\ scans = {}

\* C7: confirming a staged result with at least one item shows the staged
\* total, clears left operand and operator, awaits an operand, sets the trace
\* to the item amounts joined by " + " and followed by " =", puts exactly one
\* entry of type scan at the head of the history with that total, the trimmed
\* category, the image reference and the item sum as calculation, and clears
\* the staging state.
C7_ConfirmScan ==
  [][(/\ log' = <<"confirm">>
      /\ editableResult # None
      /\ Len(editableResult[1].items) > 0
      /\ ConfirmScan)
      => LET staged == editableResult[1]
             amounts == [i \in 1..Len(staged.items) |->
                           parseSanitizedAmount(staged.items[i].amount)]
         IN  /\ displayValue' = Str(staged.total)
             /\ previousValue' = null
             /\ operator' = NoOp
             /\ waitingForOperand'
             /\ calculationString' = joinPlus(amounts) \o <<" ", "=">>
             /\ Len(history') = Len(history) + 1
             /\ Tail(history') = history
             /\ history'[1].type = "scan"
             /\ history'[1].total = staged.total
             /\ history'[1].category = trim(staged.category)
             /\ history'[1].imageDataUrl = imageDataUrl
             /\ history'[1].calculation = joinPlus(amounts)
             /\ ~isScanDetailsVisible'
             /\ scanResult' = None
             /\ editableResult' = None
             /\ imageDataUrl' = NoImage]_vars

\* a staged result of two items, its category retyped as " New ", was
\* confirmed
C7_Witness ==
  /\ history # <<>>
  /\ history[1].type = "scan"
  /\ history[1].total = Fin(2510)
  /\ history[1].category = <<"N", "e", "w">>
  /\ history[1].imageDataUrl = 1
  /\ history[1].calculation = <<"1", ".", "0", "1", " ", "+", " ", "1", ".", "5">>
  /\ displayValue = <<"2", ".", "5", "1">>
  /\ calculationString = <<"1", ".", "0", "1", " ", "+", " ", "1", ".", "5", " ", "=">>
  /\ ~isScanDetailsVisible
  /\ editableResult = None
  /\ imageDataUrl = NoImage

\* C8: discarding a staged scan, by the Discard button or by Escape, clears
\* the staging state and the image reference, resets the calculator to the
\* identity state and leaves history and categories unchanged.
C8_DiscardScan ==
  [][(isScanDetailsVisible /\ Len(log') > 0 /\ log'[1] = "discard" /\ (DiscardScan \/ KeyEscape))
      => /\ ~isScanDetailsVisible'
         /\ scanResult' = None
         /\ editableResult' = None
         /\ imageDataUrl' = NoImage
         /\ displayValue' = ZeroStr
         /\ previousValue' = null
         /\ operator' = NoOp
         /\ waitingForOperand'
         /\ calculationString' = <<>>
         /\ UNCHANGED <<history, customCategories>>]_vars

\* a staged scan was discarded while the display showed an entry
C8_Witness ==
  /\ Len(log) > 2
  /\ log[1] = "discard"
  /\ SubSeq(log, 3, Len(log)) # ZeroStr
  /\ displayValue = ZeroStr
  /\ ~isScanDetailsVisible
  /\ imageDataUrl = NoImage

\* a step in which a scan of the mounted calculator fails
ScanFails ==
  \E scan \in scans :
    /\ scan.live
    /\ \/ ReadFail(scan)
       \/ \E message \in {ErrSyntax, ErrService} : ServiceFail(scan, message)
       \/ \E rawResult \in ScanResponses :
            /\ ServiceDone(scan, rawResult)
            /\ ~validateAndSanitizeScanResult(rawResult).ok \/ NoValidData(rawResult)

\* C9: when a scan fails, display, left operand, operator, waiting flag,
\* trace, history and categories are as before the failure, an error string
\* is set, the image reference is null, loading is false and the staging
\* state is as before.
C9_ScanFailure ==
  [][(log' = <<"scan">> /\ ScanFails)
      => /\ UNCHANGED <<calcVars, history, customCategories>>
         /\ error' \in {ErrRead, ErrSyntax, ErrService, ErrFormat, ErrNoData}
         /\ imageDataUrl' = NoImage
         /\ ~isLoading'
         /\ UNCHANGED <<scanResult, editableResult, isScanDetailsVisible>>]_vars

\* the service failed after the image was read, with an operator pending
C9_Witness ==
  /\ error = ErrService
  /\ operator = "+"
  /\ previousValue # null
  /\ imageDataUrl = NoImage
  /\ ~isLoading
  /\ ~isScanDetailsVisible
  /\ scans = {}

\* C10: at most one scan request is in flight at any time.
C10_SingleInFlight == Cardinality(scans) <= 1

\* C11: every insertion into the ledger leaves at most 50 entries, puts the
\* inserted entry first, keeps the earlier entries behind it in their order
\* (so that ids strictly decrease along the ledger), and drops exactly the
\* oldest entry when the ledger was full
C11_LedgerCap ==
  [][nextId' # nextId =>
       /\ Len(history') <= HistoryCap
       /\ history'[1].id = nextId
       /\ Tail(history') = Take(history, HistoryCap - 1)
       /\ \A i \in 1..(Len(history') - 1) : history'[i].id > history'[i + 1].id]_vars

\* two insertions into a full ledger: the two oldest entries are gone
C11_Witness ==
  /\ Len(history) = HistoryCap
  /\ history[1].id = 2
  /\ history[HistoryCap].id = 3 - HistoryCap

NameHome == <<"H", "o", "m", "e">>
NameLowerHome == <<"h", "o", "m", "e">>
NameZoo == <<"Z", "o", "o">>

\* a.toLowerCase() === b.toLowerCase(), compared character by character
EqualIgnoringCase(a, b) ==
  Len(a) = Len(b) /\ \A k \in 1..Len(a) : LowerChar(a[k]) = LowerChar(b[k])

\* C12: whatever is added to, renamed in or deleted from the category list,
\* from the history view, the expense form, the category field of the
\* staging panel or the confirmation of a scan, no two of its entries are
\* equal ignoring case
C12_NoCaseDuplicates ==
  \A i, j \in 1..Len(customCategories) :
    i < j => ~EqualIgnoringCase(customCategories[i], customCategories[j])

\* a scan with the category "home" was confirmed while "Home" was listed
C12_Witness ==
  /\ Len(history) > 0
  /\ history[1].type = "scan"
  /\ history[1].category = NameLowerHome
  /\ Listed(NameHome)
  /\ ~Listed(NameLowerHome)

IsSorted(categories) ==
  \A i \in 1..(Len(categories) - 1) : ~StrLess(categories[i + 1], categories[i])

\* C13: every operation that changes the category list, starting from the
\* default list, leaves it sorted in ascending order
C13_SortedAfterOperation ==
  [][customCategories' # customCategories => IsSorted(customCategories')]_vars

\* the step is a rename that was accepted: the category list has changed
RenameAccepted ==
  Len(log') = 3 /\ log'[1] = "rename" /\ customCategories' # customCategories

\* C14: an entry that stays in the ledger is unchanged by every step, except
\* that an accepted rename of old to new sets the category of the entries
\* whose category is old to new; renames and deletes of categories neither
\* add, drop nor reorder entries
C14_HistoryFrame ==
  [][/\ \A i \in 1..Len(history), j \in 1..Len(history') :
          history[i].id = history'[j].id =>
            history'[j] = IF RenameAccepted /\ history[i].category = log'[2]
                            THEN [history[i] EXCEPT !.category = trim(log'[3])]
                          ELSE history[i]
     /\ (Len(log') > 0 /\ log'[1] \in {"rename", "delete"}) =>
          /\ Len(history') = Len(history)
          /\ \A i \in 1..Len(history) : history'[i].id = history[i].id
     /\ (Len(log') > 0 /\ log'[1] = "delete") => history' = history]_vars

\* "Zoo" has just been renamed to "home": the expense filed under "Zoo" has
\* followed, the scan without a category has not
C14_Witness ==
  /\ log = <<"rename", NameZoo, NameLowerHome>>
  /\ Listed(NameLowerHome)
  /\ \E i, j \in 1..Len(history) :
       /\ history[i].type = "expense" /\ history[i].category = NameLowerHome
       /\ history[j].type = "scan" /\ history[j].category = <<>>

\* C15: the text exported from a non-empty ledger, read by the rules of
\* RFC 4180, has the header ID, Date, Type, Total, Description, Calculation,
\* Category and then one record of seven fields per entry, oldest entry
\* first, whose type, total, description, calculation and category fields
\* are those of the entry, whatever commas, double quotes and newlines
\* these contain
C15_CsvRoundTrip ==
  san.stage = "csv" =>
    LET rows == ParseCSV(san.csv)
        n == Len(san.ledger)
    IN  /\ n > 0
        /\ Len(rows) = n + 1
        /\ rows[1] = CsvHeaders
        /\ \A i \in 1..n :
             LET item == san.ledger[n - i + 1]
                 r == rows[i + 1]
             IN  /\ Len(r) = Len(CsvHeaders)
                 /\ r[1] = NatStr(item.id)
                 /\ r[3] = TypeText(item.type)
                 /\ parseFloat(r[4]) = item.total
                 /\ r[5] = OrEmpty(item.description)
                 /\ r[6] = OrEmpty(item.calculation)
                 /\ r[7] = OrEmpty(item.category)

\* an exported ledger of two entries, one with a newline in its category
\* and one with a double quote and a comma in its category
C15_Witness ==
  /\ san.stage = "csv"
  /\ Len(san.ledger) = 2
  /\ Includes(san.ledger[1].category, "\n")
  /\ Includes(san.ledger[2].category, "\"")
  /\ Includes(san.ledger[2].category, ",")

\* C16: once CameraCapture is gone and no callback of it is outstanding, no
\* stream that getUserMedia has handed out has live tracks
C16_StreamsStopped ==
  (~isCameraViewOpen /\ camera.requests = {} /\ camera.blobs = {}) => camera.live = {}

\* the digits typed, without their leading zeros ("0" when nothing else is
\* left), cut to the length of the display
TypedEntry(digits) ==
  LET significant == {i \in 1..Len(digits) : digits[i] # "0"}
      first == IF significant = {} THEN Len(digits)
               ELSE CHOOSE i \in significant : \A j \in significant : i <= j
  IN  IF digits = <<>> THEN ZeroStr
      ELSE Take(SubSeq(digits, first, Len(digits)), MaxDisplayLen)

\* C17: while only digits are typed, starting from the identity state, the
\* display after every digit is the run of digits typed so far without its
\* leading zeros, cut to 15 characters, and a digit typed on an entry of 15
\* or more characters changes nothing
C17_DigitEntry ==
  [][/\ displayValue' = TypedEntry(log')
     /\ Len(displayValue) >= MaxDisplayLen =>
          UNCHANGED <<calcVars, scanVars, appVars, kb>>]_vars

\* a sixteenth digit has been typed on a full display
C17_Witness ==
  /\ Len(log) = MaxDisplayLen + 1
  /\ Len(displayValue) = MaxDisplayLen
  /\ displayValue = Take(log, MaxDisplayLen)

\* C18: a binary operator key tapped while an operator is pending resolves
\* the pending operation on the left operand and the entry on display; when
\* the result is finite it becomes the left operand and the display, the
\* tapped operator becomes the pending one, the calculator waits for an
\* operand and the history is unchanged, whether or not an operand was typed
\* after the pending operator
C18_ChainedOperator ==
  [][\A op \in BinaryOps :
       (/\ operator # NoOp
        /\ previousValue # null
        /\ log' = Logged(op)
        /\ TapOperator(op))
       => LET result == calculate(previousValue, parseFloat(displayValue), operator)
          IN  isFinite(result) =>
                /\ previousValue' = result
                /\ displayValue' = Str(result)
                /\ operator' = op
                /\ waitingForOperand' = TRUE
                /\ history' = history]_vars

\* 1 + + : the second + was tapped right after the first and resolved 1 + 1
C18_Witness ==
  /\ inputs = 3
  /\ previousValue = Fin(2 * Scale)
  /\ displayValue = <<"2">>
  /\ operator = "+"
  /\ waitingForOperand
  /\ calculationString = <<"1", " ", "+">>
  /\ history = <<>>

\* the calculator state c after a handler has made the update u
After(c, u) ==
  Closure(Get(u, "displayValue", c.displayValue), Get(u, "previousValue", c.previousValue),
          Get(u, "operator", c.operator), Get(u, "waitingForOperand", c.waitingForOperand))

\* 5 + 3 [sq] = : the square is taken of the entry 3 and equals adds it to 5
SquareMidChain ==
  LET entered == Closure(<<"3">>, Fin(5 * Scale), "+", FALSE)
      squared == After(entered, performUnaryOperation(entered, "sq"))
      equalled == After(squared, handleEquals(squared))
  IN  /\ squared = Closure(<<"9">>, Fin(5 * Scale), "+", TRUE)
      /\ equalled.displayValue = <<"1", "4">>

\* C19: a unary function key whose result is finite puts the result on
\* display and makes the calculator wait for an operand, and changes neither
\* the left operand, the pending operator, the trace nor the history; so
\* 5 + 3 [sq] = gives 14
C19_UnaryInPlace ==
  [][/\ SquareMidChain
     /\ \A op \in UnaryOps :
          (displayValue # ErrorStr /\ log' = Logged(op) /\ TapUnary(op))
          => LET result == unaryResult(parseFloat(displayValue), op)
             IN  isFinite(result) =>
                   /\ displayValue' = Str(result)
                   /\ waitingForOperand' = TRUE
                   /\ UNCHANGED <<previousValue, operator, calculationString, history>>]_vars

\* 2 + [sq]: the 2 on display was squared while 2 + stays pending
C19_Witness ==
  /\ inputs = 3
  /\ previousValue = Fin(2 * Scale)
  /\ operator = "+"
  /\ displayValue = <<"4">>
  /\ waitingForOperand
  /\ calculationString = <<"2", " ", "+">>

\* C20: whenever a unary function key, or equals or a binary operator key
\* with an operation pending, computes a result that is not finite, the
\* calculator shows "Error", has no left operand, no pending operator and an
\* empty trace, waits for an operand, and the history is unchanged
C20_NonFiniteResult ==
  [][(/\ displayValue # ErrorStr
      /\ \/ \E op \in UnaryOps :
              /\ log' = Logged(op)
              /\ ~isFinite(unaryResult(parseFloat(displayValue), op))
              /\ TapUnary(op)
         \/ /\ operator # NoOp
            /\ previousValue # null
            /\ ~isFinite(calculate(previousValue, parseFloat(displayValue), operator))
            /\ TapEquals \/ \E op \in BinaryOps : TapOperator(op))
     => /\ displayValue' = ErrorStr
        /\ previousValue' = null
        /\ operator' = NoOp
        /\ waitingForOperand' = TRUE
        /\ calculationString' = <<>>
        /\ history' = history]_vars

\* ErrorState entered by the second tap of a run (such as + log, the
\* logarithm of the 0 on display with + pending, or / = on 0)
C20_Witness ==
  /\ inputs = 2
  /\ log = Lost
  /\ displayValue = ErrorStr
  /\ previousValue = null
  /\ operator = NoOp
  /\ waitingForOperand
  /\ calculationString = <<>>
  /\ history = <<>>

\* the identity state of the calculator
IsIdentity ==
  /\ displayValue = ZeroStr
  /\ previousValue = null
  /\ operator = NoOp
  /\ waitingForOperand
  /\ calculationString = <<>>

\* C21: while the display is "Error", a tap on a digit leaves the display
\* equal to that digit, an entry in progress, no left operand and no pending
\* operator, and a tap on the clear key leaves the identity state.
C21_ErrorRecovery ==
  [][displayValue = ErrorStr =>
       /\ \A d \in ModelDigits :
            TapDigit(d) =>
              /\ displayValue' = <<d>>
              /\ ~waitingForOperand'
              /\ previousValue' = null
              /\ operator' = NoOp
       /\ TapClear => IsIdentity']_vars

\* C22: a tap on equals while no operator is pending changes nothing of
\* display, left operand, operator, waiting flag, trace and history.
C22_EqualsNoOp ==
  [][(operator = NoOp /\ TapEquals) => UNCHANGED <<calcVars, history>>]_vars

\* equals was tapped again after + = had completed a calculation: the
\* history still holds the one entry
C22_Witness ==
  /\ log = <<"idle", "=">>
  /\ Len(history) = 1
  /\ waitingForOperand
  /\ operator = NoOp
  /\ calculationString = <<"0", " ", "+", " ", "0", " ", "=">>

ConstantValue(constant) == IF constant = "pi" THEN MathPI ELSE MathE

\* C23: a tap on a constant key shows the constant as an entry in progress;
\* outside ErrorState it leaves left operand, pending operator and trace as
\* they are, and in ErrorState it leaves them as in the identity state; the
\* history is unchanged; and a binary operator tapped on the constant takes
\* the constant as its operand.
C23_ConstantInput ==
  [][/\ \A c \in {"pi", "e"} :
          TapConstant(c) =>
            /\ displayValue' = Str(ConstantValue(c))
            /\ ~waitingForOperand'
            /\ history' = history
            /\ IF displayValue = ErrorStr
                 THEN previousValue' = null /\ operator' = NoOp /\ calculationString' = <<>>
               ELSE UNCHANGED <<previousValue, operator, calculationString>>
     /\ \A c \in {"pi", "e"}, op \in BinaryOps :
          (/\ ~waitingForOperand
           /\ displayValue = Str(ConstantValue(c))
           /\ TapOperator(op))
            => LET value == ConstantValue(c)
                   result == calculate(previousValue, value, operator)
               IN  /\ parseFloat(displayValue) = value
                   /\ IF previousValue = null
                        THEN previousValue' = value /\ operator' = op
                      ELSE IF operator = NoOp THEN operator' = op
                      ELSE IF isFinite(result)
                        THEN /\ previousValue' = result
                             /\ displayValue' = Str(result)
                             /\ operator' = op
                      ELSE displayValue' = ErrorStr]_vars

\* 1 + pi + was tapped: the sum of 1 and the constant is the left operand
C23_Witness ==
  /\ previousValue = Add(Fin(Scale), MathPI)
  /\ operator = "+"
  /\ waitingForOperand
  /\ calculationString = Str(MathPI) \o <<" ", "+">>

\* C24: a tap on backspace changes nothing while the calculator waits for an
\* operand or shows "Error"; otherwise the display loses exactly its last
\* character, or becomes "0" when it had one character; left operand,
\* operator, waiting flag, trace and history are unchanged in every case.
C24_Backspace ==
  [][TapBackspace =>
       /\ UNCHANGED <<previousValue, operator, waitingForOperand, calculationString, history>>
       /\ IF waitingForOperand \/ displayValue = ErrorStr
            THEN displayValue' = displayValue
          ELSE IF Len(displayValue) = 1 THEN displayValue' = ZeroStr
          ELSE Append(displayValue', displayValue[Len(displayValue)]) = displayValue]_vars

\* backspace was tapped on the two-character operand typed after +: one
\* character is left and 0 + is still pending
C24_Witness ==
  /\ log = <<"tap", "Backspace">>
  /\ inputs = 4
  /\ displayValue = <<"1">>
  /\ ~waitingForOperand
  /\ previousValue = Fin(0)
  /\ operator = "+"
  /\ calculationString = <<"0", " ", "+">>

\* the clear key shows AC: no operator is pending and an operand is awaited
IsAC == operator = NoOp /\ waitingForOperand

\* C25: clear-entry (the clear key while it shows C) outside ErrorState sets
\* the display to "0" and leaves left operand, operator, waiting flag and
\* trace unchanged; clear-all (the clear key while it shows AC, and the keys
\* c and Escape) leaves the identity state; neither changes the history.
C25_Clear ==
  [][/\ (TapClear /\ ~IsAC /\ displayValue # ErrorStr)
          => /\ displayValue' = ZeroStr
             /\ UNCHANGED <<previousValue, operator, waitingForOperand,
                            calculationString, history>>
     /\ ((TapClear /\ IsAC) \/ KeyInput("c") \/ KeyInput("Escape"))
          => (IsIdentity' /\ history' = history)]_vars

\* the clear key was tapped on the operand typed after +: the display is 0,
\* the entry is still in progress and 0 + is still pending
C25_Witness ==
  /\ log = <<"tap", "C">>
  /\ inputs = 3
  /\ displayValue = ZeroStr
  /\ ~waitingForOperand
  /\ previousValue = Fin(0)
  /\ operator = "+"
  /\ calculationString = <<"0", " ", "+">>

\* the elements of the response that sanitize is to keep: objects whose
\* amount is a finite number, or a string that parses to a finite number
\* once every character other than digits, "." and "-" is removed
Acceptable(item) ==
  /\ item.isObject
  /\ \/ item.amount.t = "number" /\ isFinite(item.amount.n)
     \/ item.amount.t = "string" /\ isFinite(parseFloat(cleanedString(item.amount.s)))

\* the number an acceptable element's amount denotes
AmountOf(item) ==
  IF item.amount.t = "number" THEN item.amount.n
  ELSE parseFloat(cleanedString(item.amount.s))

\* the elements of an accepted response, none when items is not an array
ElementsOf(raw) == IF raw.itemsIsArray THEN raw.items ELSE <<>>

\* C26: the items sanitize returns are the acceptable elements of the
\* response, in their order, each with its amount rounded to two decimals,
\* and the returned total is the rounded sum of those amounts alone.
C26_DropsExactly ==
  san.stage \in {"once", "twice"} =>
    LET kept == SelectSeq(ElementsOf(san.raw), Acceptable)
        amounts == [k \in 1..Len(kept) |-> [amount |-> Round2(AmountOf(kept[k]))]]
    IN  /\ Len(san.once.items) = Len(kept)
        /\ \A k \in 1..Len(kept) : san.once.items[k].amount = amounts[k].amount
        /\ san.once.total = Round2(sumAmounts(amounts))

\* a response whose first element has a non-finite amount and whose second
\* has the amount "$1.5" was sanitized: the second is the only item
C26_Witness ==
  /\ san.stage = "once"
  /\ Len(san.raw.items) = 2
  /\ san.raw.items[1].amount = JSNum(PosInf)
  /\ san.raw.items[2].amount = JSStr(<<"$", "1", ".", "5">>)
  /\ Len(san.once.items) = 1
  /\ san.once.items[1].amount = Fin(1500)
  /\ san.once.total = Fin(1500)

\* a field of the response is missing or empty
MissingOrEmpty(v) == v.t \in {"undefined", "null"} \/ (v.t = "string" /\ v.s = <<>>)

\* C27: every returned description is the trimmed string form of the
\* element's description, or "Unnamed Item" when that is missing or empty,
\* and the returned category is the trimmed string form of the response's
\* category, or "Uncategorized" when that is missing or empty.
C27_Descriptions ==
  san.stage \in {"once", "twice"} =>
    LET kept == SelectSeq(ElementsOf(san.raw), Acceptable)
    IN  /\ Len(san.once.items) = Len(kept)
        /\ \A k \in 1..Len(kept) :
             san.once.items[k].description =
               IF MissingOrEmpty(kept[k].description) THEN UnnamedItem
               ELSE trim(ToStr(kept[k].description))
        /\ san.once.category =
             IF MissingOrEmpty(san.raw.category) THEN Uncategorized
             ELSE trim(ToStr(san.raw.category))

\* the sum of the numbers the amount texts parse to, a text that does not
\* parse counting as 0
ReparsedSum(items) ==
  sumAmounts([k \in 1..Len(items) |-> [amount |-> parseSanitizedAmount(items[k].amount)]])

\* C28: whenever a result is staged, right after the scan and after every
\* run of edits of descriptions, amounts, items and category, its total is
\* the sum of its re-parsed amount texts rounded to two decimals.
C28_StagedTotal ==
  editableResult # None =>
    editableResult[1].total = Round2(ReparsedSum(editableResult[1].items))

\* the amounts of two scanned items were retyped as x and as 2.5: the total
\* is 0 + 2.5
C28_Witness ==
  /\ editableResult # None
  /\ edits = 2
  /\ Len(editableResult[1].items) = 2
  /\ editableResult[1].items[1].amount = <<"x">>
  /\ editableResult[1].items[2].amount = <<"2", ".", "5">>
  /\ editableResult[1].total = Fin(2500)

BlankItem == [description |-> <<>>, amount |-> <<"0", ".", "0", "0">>]

\* s without its element at position i
Without(s, i) == [k \in 1..(Len(s) - 1) |-> IF k < i THEN s[k] ELSE s[k + 1]]

\* C29: in staging, appending an item puts one blank item (description "",
\* amount "0.00") at the end and leaves the other items, the category and the
\* total unchanged; removing the item at position i leaves the other items
\* in their order and the category unchanged; editing the category sets the
\* category and leaves the items and the total unchanged.
C29_StagingFrame ==
  [][editableResult # None =>
       /\ AddItem =>
            /\ editableResult'[1].items = Append(editableResult[1].items, BlankItem)
            /\ editableResult'[1].category = editableResult[1].category
            /\ editableResult'[1].total = editableResult[1].total
       /\ \A i \in 1..MaxItems :
            RemoveItem(i) =>
              /\ editableResult'[1].items = Without(editableResult[1].items, i)
              /\ editableResult'[1].category = editableResult[1].category
       /\ \A value \in EditCategories :
            CategoryChange(value) =>
              /\ editableResult'[1].category = value
              /\ editableResult'[1].items = editableResult[1].items
              /\ editableResult'[1].total = editableResult[1].total]_vars

\* the first of two scanned items was removed and a blank item appended:
\* the second scanned item is first, the blank item second, the total 1.5
C29_Witness ==
  /\ editableResult # None
  /\ edits = 2
  /\ Len(editableResult[1].items) = 2
  /\ editableResult[1].items[1].amount = <<"1", ".", "5", "0">>
  /\ editableResult[1].items[2] = BlankItem
  /\ editableResult[1].total = Fin(1500)
  /\ editableResult[1].category = <<"x">>

\* C30: confirming a staged result that has no items writes no history
\* entry and changes neither the calculator state (display, left operand,
\* operator, waiting flag, trace) nor the category list.
C30_ConfirmEmpty ==
  [][(/\ log' = <<"confirm">>
      /\ editableResult # None
      /\ Len(editableResult[1].items) = 0
      /\ ConfirmScan)
      => UNCHANGED <<calcVars, history, customCategories>>]_vars

\* + was tapped, a receipt of the category Food was scanned, its only
\* item was removed and the empty result was confirmed: no entry was
\* written, 0 + is still pending and Food is not a category
C30_Witness ==
  /\ log = <<"confirm">>
  /\ edits = 1
  /\ history = <<>>
  /\ editableResult = None
  /\ ~isScanDetailsVisible
  /\ operator = "+"
  /\ previousValue = Fin(0)
  /\ customCategories = DefaultCategories

\* C33: in every reachable state the left operand is null if and only if
\* the pending operator is null.
C33_OperandIffOperator == (previousValue = null) <=> (operator = NoOp)

\* 1 + 2 * : the sum 3 is stashed while the multiplication is pending
C33_Witness ==
  /\ previousValue = Fin(3 * Scale)
  /\ operator = "*"
  /\ waitingForOperand
  /\ displayValue = <<"3">>

\* C34: after any sequence of keypad inputs the display is "Error" or a
\* string that parses to a finite number.
C34_DisplayFinite == displayValue = ErrorStr \/ isFinite(parseFloat(displayValue))

\* C38: from every reachable state, tapping the on-screen clear key
\* repeatedly reaches the identity state (display "0", no left operand, no
\* pending operator, empty trace). The key's effect is a function of the
\* calculator state, so a state that a tap on it leaves as it is stays as it
\* is under every further tap: each such state has to be the identity state.
C38_ClearReachesIdentity ==
  [][(log' = <<"tap", "C">> /\ TapClear /\ UNCHANGED calcVars)
      => /\ displayValue = ZeroStr
         /\ previousValue = null
         /\ operator = NoOp
         /\ calculationString = <<>>]_vars

\* C36: every history entry of type scan has a total greater than 0,
\* whatever edits were made to the staged result before it was confirmed.
C36_ScanTotalPositive ==
  \A i \in 1..Len(history) :
    history[i].type = "scan" => ~LeqZero(history[i].total) /\ ~isNaN(history[i].total)

\* C37: the image reference of a committed scan entry is the image of the
\* scan whose items were staged and confirmed: never the image of another
\* scan and never no image. The receipt on file number f has one item of
\* amount f, so the total of an entry tells which scan it was staged from.
C37_ImageOfScan ==
  \A i \in 1..Len(history) :
    history[i].type = "scan"
      => /\ history[i].imageDataUrl # NoImage
         /\ history[i].total = Fin(history[i].imageDataUrl * Scale)

\* the update made by the on-screen button that corresponds to a key: the
\* handler of the current render
buttonFor(key) ==
  CASE IsDigit(key) -> inputDigit(cur, key)
    [] key = "." -> inputDecimal(cur)
    [] key \in {"+", "-", "*", "/"} -> performOperation(cur, key)
    [] key = "^" -> performOperation(cur, "x^y")
    [] key = "%" -> inputPercent(cur)
    [] key = "=" -> handleEquals(cur)
    [] key = "Backspace" -> backspace(cur)

\* the keys that have a button of their own on the keypad
ButtonKeys == ModelKeys \ {"c", "Escape"}

\* C35: a key of the physical keyboard has the same effect on display, left
\* operand, operator, waiting flag, trace and history as a tap on the
\* corresponding on-screen button in the same state.
C35_KeyAsButton ==
  [][\A key \in ButtonKeys :
       KeyInput(key)
         => \E u \in {buttonFor(key)} :
              /\ displayValue' = Get(u, "displayValue", displayValue)
              /\ previousValue' = Get(u, "previousValue", previousValue)
              /\ operator' = Get(u, "operator", operator)
              /\ waitingForOperand' = Get(u, "waitingForOperand", waitingForOperand)
              /\ calculationString' = Get(u, "calculationString", calculationString)
              /\ history' = IF Sets(u, "addHistory")
                              THEN addHistoryItem(history, u["addHistory"], nextId)
                              ELSE history]_vars

\* a request the worker must leave alone: not a GET, or one whose URL
\* contains googleapis.com
LeftAlone(request) == request.method # "GET" \/ includes(request.url, GoogleApis)

\* no request that must be left alone is in the cache, on its way into the
\* cache, taken over by the worker or answered from the cache
NothingLeftAloneIsCached ==
  /\ \A entry \in worker.cache \cup worker.puts : ~LeftAlone(entry.request)
  /\ \A request \in worker.taken : ~LeftAlone(request)
  /\ worker.last.source \in {"network", "cache", "error"} => ~LeftAlone(worker.last.request)

\* C32: the service worker never stores in the cache and never answers from
\* the cache a request whose URL contains googleapis.com or whose method is
\* not GET; for every other GET request it returns the network response
\* when the network succeeds, caching it when the status is 200, and
\* returns the cached response only when the network request fails.
C32_NetworkFirst ==
  [][/\ NothingLeftAloneIsCached'
     /\ \A method \in FetchMethods, url \in FetchUrls :
          (LeftAlone(Request(method, url)) /\ FetchEvent(Request(method, url)))
            => /\ worker'.last.source = "browser"
               /\ worker'.cache = worker.cache
               /\ worker'.puts = worker.puts
               /\ worker'.taken = worker.taken
     /\ \A request \in worker.taken, response \in NetworkResponses :
          NetworkResponds(request, response)
            => /\ worker'.last.source = "network"
               /\ worker'.last.response = response
               /\ worker'.cache = worker.cache
               /\ worker'.puts = IF response.status = 200
                                   THEN worker.puts \cup {[request |-> request,
                                                           response |-> response]}
                                   ELSE worker.puts
     /\ \A entry \in worker.puts :
          CachePut(entry)
            => /\ entry \in worker'.cache
               /\ \A other \in worker'.cache :
                    other.request = entry.request => other = entry
     /\ (worker'.last.source = "cache" /\ worker'.last # worker.last)
          => /\ NetworkFails(worker'.last.request)
             /\ [request |-> worker'.last.request,
                 response |-> worker'.last.response] \in worker.cache]_vars

\* an asset outside the shell was fetched and cached, and when the network
\* failed on the next request for it the cached copy was served
C32_Witness ==
  /\ worker.stage = "activated"
  /\ worker.last.source = "cache"
  /\ worker.last.request = Request("GET", <<"/", "assets", "/", "app", ".", "js">>)
  /\ worker.last.response = Response(200, "b")
  /\ worker.fetches = 2

\* the step in which the processImage call of a file resolves: it was
\* outstanding and no longer is
Resolves(file) ==
  /\ \E scan \in scans : scan.file = file
  /\ \A scan \in scans' : scan.file # file

\* C31: every started scan resolves exactly once. Provided each read and
\* each service call completes or fails, loading becomes false again and the
\* call is no longer outstanding, and the step in which it resolves leaves
\* either a staged result and no error (staging) or an error string and the
\* staging state it found (failure), and never neither.
C31_ScanResolves ==
  /\ isLoading ~> ~isLoading
  /\ \A file \in 1..MaxMountScans :
       (\E scan \in scans : scan.file = file) ~> (\A scan \in scans : scan.file # file)
  /\ [][\A file \in 1..MaxMountScans :
          Resolves(file)
            => /\ ~isLoading'
               /\ \/ /\ editableResult' # None
                     /\ isScanDetailsVisible'
                     /\ error' = NoError
                  \/ /\ error' # NoError
                     /\ UNCHANGED <<scanResult, editableResult, isScanDetailsVisible>>]_vars

====
